---- MODULE Spec2Model ----
(***************************************************************************)
(* MCBE-IPC: the NET fragmentation / reassembly engine, the endpoint       *)
(* registry and its dispatcher, and the IPC send/on/once/invoke/handle     *)
(* facade (src/src/ipc.ts), under the host's cooperative job scheduler.    *)
(*                                                                         *)
(* A job is a generator run by system.runJob; one action of the model is   *)
(* one slice of a job, from one yield to the next.  The scheduler may run  *)
(* the slices of different jobs in any order (the synchronous scheduler of *)
(* the test mock is one such order).                                       *)
(***************************************************************************)
EXTENDS Integers, Sequences, FiniteSets, TLC

\* ------------------------------------------------------------------ bounds

\* NET.FRAG_MAX (an exported, assignable variable; 2048 by default): set low
\* so that short payloads are split into several fragments.
FRAG_MAX == 4
\* listeners the script registers with IPC.on / IPC.once
MaxListeners == 2
\* messages the script sends with IPC.send
MaxSends == 2
\* messages that reach the dispatcher from a source other than a script
MaxForeign == 1
\* messages the script sends while such a message is dispatched
MaxBeside == 1
\* fragments of all messages the script sends with IPC.send
MaxChunks == 3
\* calls the script makes of one deregistration closure
MaxOff == 1
\* handlers the script registers with IPC.handle
MaxHandlers == 2
\* requests the script issues with IPC.invoke
MaxInvokes == 2
\* length of the byte sequences NET.serialize is applied to
MaxBytes == 3
\* largest max_size NET.serialize is applied with
MaxSize == 4
\* most bytes of a payload that is cut into chunks
ChunkBytes == 5
\* NET.FRAG_MAX as the module sets it: DirectIPC runs with the default
DirectFragMax == 2048
\* calls of ConnectionManager.connect the initiator's script makes
MaxConnects == 2
\* calls of Connection.terminate the script makes on one Connection
MaxTerminates == 1
\* listeners the scripts register on Connections and managers
MaxDirectListeners == 2
\* calls of send and invoke the scripts make on Connections and managers
MaxDirectSends == 1
\* calls the scripts make in a session: connect, terminate, on, once, handle,
\* send and invoke
MaxScriptCalls == 4
\* the prime and the base (`mod`) the script passes to connect
DirectPrime == 23
DirectMod == 2

\* largest size a script constructs a PROTO.Buffer with
MaxBufferSize == 2
\* largest capacity a PROTO.Buffer grows to
MaxCapacity == 6
\* largest capacity the Buffer of the fixed-width codecs grows to
NumberCapacity == 8
\* most bytes that Buffer holds
MaxHeld == 4
\* most bytes a script writes or reserves in one call
MaxAmount == 2

\* the powers of two 2^0 .. 2^MaxShift around which the varint codecs are
\* tried, besides 2^30
MaxShift == 29

\* values a script serializes one after another into one PROTO.Buffer
MaxValues == 2
\* the sizes a script constructs that Buffer with: one smaller than a value's
\* bytes, one larger than all of them
SmallBuffer == 2
LargeBuffer == 32

\* events one listener is run with for the fragments of one message
MaxArrivals == 6
\* largest index of a fragment of the messages sent
MaxIndex == 2

\* calls the script makes of one deregistration closure when it calls it again
MaxOffAgain == 2

\* the base (`mod`) the script passes to connect calls that overlap: secrets
\* 1 .. ConcurrentMod - 1
ConcurrentMod == 3

\* ------------------------------------------------------- small utilities

Range(s) == {s[i] : i \in DOMAIN s}

Min(S) == CHOOSE x \in S : \A y \in S : x <= y

\* Array.prototype.indexOf / splice(idx, 1) on an array of distinct items
Without(s, x) == SelectSeq(s, LAMBDA y : y # x)

\* ------------------------------------------------------------ PROTO codecs

\* A 32-bit unsigned value is modelled by the signed 32-bit integer of the same
\* bit pattern (2^32 - 1 by -1, 2^31 by -2^31), so that every value keeps its
\* width; below 2^31 the two are the same number.

\* value >>> 7 on a bit pattern
UShr7(value) == IF value < 0 THEN (value \div 128) + 2 ^ 25 ELSE value \div 128

\* a serialize that sets bit 7 on the last byte too
RECURSIVE UVarInt32SerializeFlagged(_)
UVarInt32SerializeFlagged(value) ==
  IF value < 0 \/ value >= 128
    THEN <<(value % 128) + 128>> \o UVarInt32SerializeFlagged(UShr7(value))
    ELSE <<value + 128>>

\* PROTO.UVarInt32.serialize: 7 bits per byte, low group first, bit 7 set on
\* every byte but the last; value >= 0x80 is read on the unsigned value.
RECURSIVE UVarInt32Serialize(_)
UVarInt32Serialize(value) ==
  IF value < 0 \/ value >= 128
    THEN <<(value % 128) + 128>> \o UVarInt32Serialize(UShr7(value))
    ELSE <<value>>

Pow2(n) == 2 ^ n

\* (byte & 0x7f) << (size * 7) in 32 bits: of the fifth group only 4 bits fit
Group(byte, size) ==
  IF size < 4 THEN (byte % 128) * Pow2(7 * size)
  ELSE IF byte % 16 >= 8 THEN ((byte % 16) - 16) * Pow2(28)
  ELSE (byte % 16) * Pow2(28)

\* PROTO.UVarInt32.deserialize: reads at most 5 bytes from the front of the
\* stream; Buffer.read throws 'not enough bytes' on an empty stream.
RECURSIVE UVarInt32Read(_, _, _)
UVarInt32Read(stream, size, value) ==
  IF size = 5 THEN [ok |-> TRUE, value |-> value, rest |-> stream]
  ELSE IF stream = <<>> THEN [ok |-> FALSE, value |-> 0, rest |-> <<>>]
  ELSE LET byte == Head(stream)
           v2 == value + Group(byte, size)
       IN IF byte < 128
            THEN [ok |-> TRUE, value |-> v2, rest |-> Tail(stream)]
            ELSE UVarInt32Read(Tail(stream), size + 1, v2)

UVarInt32Deserialize(stream) == UVarInt32Read(stream, 0, 0)

\* PROTO.String.serialize: the length, then one UVarInt32 per UTF-16 code unit.
\* A string is modelled as the sequence of its code units.
RECURSIVE StringCodes(_)
StringCodes(value) ==
  IF value = <<>> THEN <<>>
  ELSE UVarInt32Serialize(Head(value)) \o StringCodes(Tail(value))

StringSerialize(value) == UVarInt32Serialize(Len(value)) \o StringCodes(value)

\* PROTO.String.deserialize
RECURSIVE StringRead(_, _, _)
StringRead(stream, length, value) ==
  IF length = 0 THEN [ok |-> TRUE, value |-> value, rest |-> stream]
  ELSE LET c == UVarInt32Deserialize(stream)
       IN IF ~c.ok THEN [ok |-> FALSE, value |-> <<>>, rest |-> <<>>]
          ELSE StringRead(c.rest, length - 1, Append(value, c.value % 65536))

StringDeserialize(stream) ==
  LET n == UVarInt32Deserialize(stream)
  IN IF ~n.ok THEN [ok |-> FALSE, value |-> <<>>, rest |-> <<>>]
     ELSE StringRead(n.rest, n.value, <<>>)

\* ------------------------------------------------------------ PROTO.Buffer

\* new PROTO.Buffer(size): a zeroed Uint8Array of `size` bytes, nothing held.
\* A Buffer is the record of its _buffer, _length and _offset; index i of the
\* Uint8Array is element i + 1 of the sequence.
NewBuffer(size) == [buffer |-> [i \in 1 .. size |-> 0], length |-> 0, offset |-> 0]

\* get end
BufferEnd(b) == b.length + b.offset

\* a growth that copies from the start of the old array instead of from _offset
ensure_capacityFromStart(b, size) ==
  IF BufferEnd(b) + size > Len(b.buffer)
    THEN [b EXCEPT !.buffer = [i \in 1 .. (BufferEnd(b) + size) * 2 |->
                                 IF i <= b.length THEN b.buffer[i] ELSE 0],
                   !.offset = 0]
    ELSE b

\* Buffer.ensure_capacity: when the bytes do not fit behind `end`, a zeroed
\* array of twice the needed size takes the held bytes at its start.
ensure_capacity(b, size) ==
  IF BufferEnd(b) + size > Len(b.buffer)
    THEN [b EXCEPT !.buffer = [i \in 1 .. (BufferEnd(b) + size) * 2 |->
                                 IF i <= b.length THEN b.buffer[b.offset + i] ELSE 0],
                   !.offset = 0]
    ELSE b

\* Buffer.reserve: `value` is the returned offset
reserve(b, amount) ==
  LET c == ensure_capacity(b, amount)
  IN [stream |-> [c EXCEPT !.length = @ + amount], value |-> BufferEnd(c)]

\* a consume that throws only after it took the bytes that were there
consumeDraining(b, amount) ==
  IF amount > b.length
    THEN [ok |-> FALSE, stream |-> [b EXCEPT !.length = 0, !.offset = @ + b.length], value |-> 0]
    ELSE [ok |-> TRUE, stream |-> [b EXCEPT !.length = @ - amount, !.offset = @ + amount],
          value |-> b.offset]

\* Buffer.consume: ok is FALSE when it throws 'not enough bytes', else
\* `value` is the returned offset
consume(b, amount) ==
  IF amount > b.length
    THEN [ok |-> FALSE, stream |-> b, value |-> 0]
    ELSE [ok |-> TRUE, stream |-> [b EXCEPT !.length = @ - amount, !.offset = @ + amount],
          value |-> b.offset]

\* Buffer.write(byte): a Uint8Array element keeps the low 8 bits
WriteByte(b, byte) ==
  LET r == reserve(b, 1)
  IN [r.stream EXCEPT !.buffer[r.value + 1] = byte % 256]

\* Buffer.write(bytes)
WriteBytes(b, bytes) ==
  LET r == reserve(b, Len(bytes))
  IN [r.stream EXCEPT !.buffer = [i \in DOMAIN @ |->
        IF r.value < i /\ i <= r.value + Len(bytes) THEN bytes[i - r.value] ELSE @[i]]]

\* Buffer.read()
ReadByte(b) ==
  LET c == consume(b, 1)
  IN [ok |-> c.ok, stream |-> c.stream, value |-> IF c.ok THEN b.buffer[c.value + 1] ELSE 0]

\* Buffer.read(amount)
ReadBytes(b, amount) ==
  LET c == consume(b, amount)
  IN [ok |-> c.ok, stream |-> c.stream,
      value |-> IF c.ok THEN SubSeq(b.buffer, c.value + 1, c.value + amount) ELSE <<>>]

\* Buffer.to_uint8array: the held bytes
to_uint8array(b) == SubSeq(b.buffer, b.offset + 1, BufferEnd(b))

\* --------------------------------------------------- PROTO codecs on a Buffer

\* PROTO.UVarInt32.serialize(value, stream): one Buffer.write per byte
RECURSIVE WriteAll(_, _)
WriteAll(b, bytes) ==
  IF bytes = <<>> THEN b ELSE WriteAll(WriteByte(b, Head(bytes)), Tail(bytes))

\* PROTO.UVarInt32.deserialize(stream): ok is FALSE when a Buffer.read threw,
\* `stream` is the Buffer as the decode left it
RECURSIVE UVarInt32Take(_, _, _)
UVarInt32Take(b, size, value) ==
  IF size = 5 THEN [ok |-> TRUE, stream |-> b, value |-> value]
  ELSE LET r == ReadByte(b)
       IN IF ~r.ok THEN [ok |-> FALSE, stream |-> b, value |-> 0]
          ELSE LET v2 == value + Group(r.value, size)
               IN IF r.value < 128
                    THEN [ok |-> TRUE, stream |-> r.stream, value |-> v2]
                    ELSE UVarInt32Take(r.stream, size + 1, v2)

\* A codec is the record of its kind `t` and, for a composite, of its member
\* codecs `of`.  A string is the sequence of its code units, an array, tuple
\* or Set the sequence of its items in iteration order, an object the sequence
\* of its properties' values in the order of `for (key in s)`, a Map the
\* sequence of its <<key, value>> entries in insertion order, and the value of
\* an Optional [def |-> FALSE] for undefined, else [def |-> TRUE, value |-> v].
\* serialize returns [ok, stream] and deserialize [ok, value, stream], ok FALSE
\* when the call threw, with the Buffer as the throw left it.

\* the bytes DataView.setUint16 / setInt32 / ... store for a value of `width`
\* bytes: big-endian, the value taken modulo 2^(8 * width)
BigEndian(value, width) == [i \in 1 .. width |-> (value \div (256 ^ (width - i))) % 256]

\* the unsigned number of big-endian bytes
RECURSIVE Unsigned(_)
Unsigned(bytes) ==
  IF bytes = <<>> THEN 0
  ELSE bytes[Len(bytes)] + 256 * Unsigned(SubSeq(bytes, 1, Len(bytes) - 1))

\* the number DataView.getUint8 / 16 / 32 reads from big-endian bytes; a
\* 32-bit value stands as the signed number of the same bits
FromBigEndian(bytes) ==
  IF Len(bytes) = 4 /\ bytes[1] >= 128
    THEN (bytes[1] - 256) * (2 ^ 24) + Unsigned(Tail(bytes))
    ELSE Unsigned(bytes)

\* stream.data_view.setUintN(stream.reserve(width), value) of the fixed-width
\* codecs: the DataView is read off the stream before reserve runs.  When
\* reserve grows the Buffer, the write goes to the DataView of the old
\* ArrayBuffer at the new offset: behind its end it throws a RangeError,
\* inside it the bytes land in the abandoned array and the new one keeps zeros
SetUint(b, width, value) ==
  LET r == reserve(b, width)
      bytes == BigEndian(value, width)
  IN IF BufferEnd(b) + width > Len(b.buffer)
       THEN [ok |-> r.value + width <= Len(b.buffer), stream |-> r.stream]
       ELSE [ok |-> TRUE,
             stream |-> [r.stream EXCEPT !.buffer = [i \in DOMAIN @ |->
                IF r.value < i /\ i <= r.value + width THEN bytes[i - r.value] ELSE @[i]]]]

\* stream.data_view.getUintN(stream.consume(width))
GetUint(b, width) ==
  LET c == consume(b, width)
  IN [ok |-> c.ok, stream |-> c.stream,
      value |-> IF c.ok THEN FromBigEndian(SubSeq(b.buffer, c.value + 1, c.value + width))
                ELSE 0]

\* PROTO.UInt8.serialize
SetUint8(b, value) == SetUint(b, 1, value)

\* PROTO.UInt8.deserialize
GetUint8(b) == GetUint(b, 1)

\* Map.prototype.set on the entries in insertion order
MapSet(entries, k, v) ==
  IF \E i \in DOMAIN entries : entries[i][1] = k
    THEN [i \in DOMAIN entries |-> IF entries[i][1] = k THEN <<k, v>> ELSE entries[i]]
    ELSE Append(entries, <<k, v>>)

\* Set.prototype.add
SetAdd(items, v) ==
  IF \E i \in DOMAIN items : items[i] = v THEN items ELSE Append(items, v)

\* the Map built by result.set(k, v) over the decoded k, v, k, v, ...
RECURSIVE MapOf(_, _)
MapOf(flat, result) ==
  IF flat = <<>> THEN result
  ELSE MapOf(Tail(Tail(flat)), MapSet(result, flat[1], flat[2]))

\* the Set built by result.add(v) over the decoded items
RECURSIVE SetOf(_, _)
SetOf(flat, result) ==
  IF flat = <<>> THEN result ELSE SetOf(Tail(flat), SetAdd(result, Head(flat)))

\* k1, v1, k2, v2, ... of a Map's entries, and the codecs they go through
Flat(entries) == [i \in 1 .. 2 * Len(entries) |-> entries[(i + 1) \div 2][2 - (i % 2)]]

Repeat(c, n) == [i \in 1 .. n |-> c]

KeyValue(kS, vS, n) == [i \in 1 .. 2 * n |-> IF i % 2 = 1 THEN kS ELSE vS]

RECURSIVE Serialize(_, _, _)
RECURSIVE SerializeAll(_, _, _)
RECURSIVE Deserialize(_, _)
RECURSIVE DeserializeAll(_, _, _)

\* the loop `yield* s[i].serialize(value[i], stream)` of a composite codec
SerializeAll(cs, values, b) ==
  IF cs = <<>> THEN [ok |-> TRUE, stream |-> b]
  ELSE LET r == Serialize(Head(cs), Head(values), b)
       IN IF r.ok THEN SerializeAll(Tail(cs), Tail(values), r.stream) ELSE r

\* s.serialize(value, stream) of the codec c
Serialize(c, value, b) ==
  CASE c.t = "UInt8" -> SetUint8(b, value)
    [] c.t = "UVarInt32" -> [ok |-> TRUE, stream |-> WriteAll(b, UVarInt32Serialize(value))]
    [] c.t = "Boolean" -> [ok |-> TRUE, stream |-> WriteByte(b, IF value THEN 1 ELSE 0)]
    [] c.t = "String" -> [ok |-> TRUE, stream |-> WriteAll(b, StringSerialize(value))]
    [] c.t \in {"Object", "Tuple"} -> SerializeAll(c.of, value, b)
    [] c.t \in {"Array", "Set"} ->
         SerializeAll(Repeat(c.of[1], Len(value)), value,
                      WriteAll(b, UVarInt32Serialize(Len(value))))
    [] c.t = "Optional" ->
         IF value.def
           THEN Serialize(c.of[1], value.value, WriteByte(b, 1))
           ELSE [ok |-> TRUE, stream |-> WriteByte(b, 0)]
    [] c.t = "Map" ->
         SerializeAll(KeyValue(c.of[1], c.of[2], Len(value)), Flat(value),
                      WriteAll(b, UVarInt32Serialize(Len(value))))

\* the loop `result[i] = yield* s[i].deserialize(stream)` of a composite codec
DeserializeAll(cs, b, result) ==
  IF cs = <<>> THEN [ok |-> TRUE, value |-> result, stream |-> b]
  ELSE LET r == Deserialize(Head(cs), b)
       IN IF r.ok THEN DeserializeAll(Tail(cs), r.stream, Append(result, r.value))
          ELSE [ok |-> FALSE, value |-> <<>>, stream |-> r.stream]

\* s.deserialize(stream) of the codec c
Deserialize(c, b) ==
  CASE c.t = "UInt8" -> GetUint8(b)
    [] c.t = "UVarInt32" -> UVarInt32Take(b, 0, 0)
    [] c.t = "Boolean" ->
         LET r == ReadByte(b) IN [ok |-> r.ok, value |-> r.ok /\ r.value # 0, stream |-> r.stream]
    [] c.t = "String" ->
         LET n == UVarInt32Take(b, 0, 0)
             r == DeserializeAll(Repeat([t |-> "UVarInt32"], n.value), n.stream, <<>>)
         IN IF ~n.ok THEN [ok |-> FALSE, value |-> <<>>, stream |-> n.stream]
            ELSE [r EXCEPT !.value = [i \in DOMAIN @ |-> @[i] % 65536]]
    [] c.t \in {"Object", "Tuple"} -> DeserializeAll(c.of, b, <<>>)
    [] c.t \in {"Array", "Set", "Map"} ->
         LET n == UVarInt32Take(b, 0, 0)
             r == DeserializeAll(IF c.t = "Map" THEN KeyValue(c.of[1], c.of[2], n.value)
                                                ELSE Repeat(c.of[1], n.value),
                                 n.stream, <<>>)
         IN IF ~n.ok THEN [ok |-> FALSE, value |-> <<>>, stream |-> n.stream]
            ELSE IF ~r.ok \/ c.t = "Array" THEN r
            ELSE IF c.t = "Set" THEN [r EXCEPT !.value = SetOf(@, <<>>)]
            ELSE [r EXCEPT !.value = MapOf(@, <<>>)]
    [] c.t = "Optional" ->
         LET def == ReadByte(b)
             r == Deserialize(c.of[1], def.stream)
         IN IF ~def.ok THEN [ok |-> FALSE, value |-> <<>>, stream |-> def.stream]
            ELSE IF def.value = 0 THEN [ok |-> TRUE, value |-> [def |-> FALSE], stream |-> def.stream]
            ELSE [ok |-> r.ok, value |-> [def |-> TRUE, value |-> r.value], stream |-> r.stream]

\* ------------------------------------------------- NET.serialize / deserialize

\* code unit of an upper-case hexadecimal digit
HexDigit(n) == IF n < 10 THEN 48 + n ELSE 55 + n

\* value of a hexadecimal digit's code unit, -1 when it is none
HexValue(c) ==
  IF c >= 48 /\ c <= 57 THEN c - 48
  ELSE IF c >= 65 /\ c <= 70 THEN c - 55
  ELSE IF c >= 97 /\ c <= 102 THEN c - 87
  ELSE -1

\* parseInt(hex, 16) & 0xff of a two-character string (the second character
\* may be missing); NaN & 0xff is 0
ParseHexPair(c1, c2) ==
  IF HexValue(c1) = -1 THEN 0
  ELSE IF c2 = -1 \/ HexValue(c2) = -1 THEN HexValue(c1)
  ELSE HexValue(c1) * 16 + HexValue(c2)

Utf16Size(char_code) ==
  IF char_code <= 127 THEN 1
  ELSE IF char_code <= 2047 THEN 2
  ELSE IF char_code <= 65535 THEN 3 ELSE 4

\* the loop of NET.serialize from byte i (1-based) on
RECURSIVE NetSerializeFrom(_, _, _, _, _, _)
NetSerializeFrom(bytes, i, acc_str, acc_size, result, max_size) ==
  IF i > Len(bytes) THEN Append(result, acc_str)
  ELSE LET char_code == bytes[i] + (IF i + 1 <= Len(bytes) THEN bytes[i + 1] ELSE 0) * 256
           char_size == IF char_code > 255 THEN Utf16Size(char_code) ELSE 2
           flush == acc_size + char_size > max_size
           str0 == IF flush THEN <<>> ELSE acc_str
           size0 == IF flush THEN 0 ELSE acc_size
           res0 == IF flush THEN Append(result, acc_str) ELSE result
           chars == IF char_code > 255 THEN <<char_code>>
                    ELSE <<HexDigit(char_code \div 16), HexDigit(char_code % 16)>>
       IN NetSerializeFrom(bytes, i + 2, str0 \o chars, size0 + char_size, res0, max_size)

\* a serialize whose chunks may pass max_size by one
NetSerializeLate(bytes, max_size) ==
  NetSerializeFrom(bytes, 1, <<>>, 0, <<>>, max_size + 1)

\* NET.serialize(buffer, max_size): the chunks, each a sequence of code units
NetSerialize(bytes, max_size) == NetSerializeFrom(bytes, 1, <<>>, 0, <<>>, max_size)

\* the inner loop of NET.deserialize over one string, from character j on
RECURSIVE NetDeserializeStr(_, _)
NetDeserializeStr(str, j) ==
  IF j > Len(str) THEN <<>>
  ELSE IF str[j] <= 255
    THEN <<ParseHexPair(str[j], IF j + 1 <= Len(str) THEN str[j + 1] ELSE -1), 0>>
         \o NetDeserializeStr(str, j + 2)
    ELSE <<str[j] % 256, str[j] \div 256>> \o NetDeserializeStr(str, j + 1)

\* NET.deserialize(strings): the bytes of all strings, in array order
RECURSIVE NetDeserialize(_)
NetDeserialize(strings) ==
  IF strings = <<>> THEN <<>>
  ELSE NetDeserializeStr(Head(strings), 1) \o NetDeserialize(Tail(strings))

\* ------------------------------------------------------------------ CRYPTO

\* number of bits of a non-negative integer
RECURSIVE BitLength(_)
BitLength(n) == IF n = 0 THEN 0 ELSE 1 + BitLength(n \div 2)

\* x * y on two numbers (IEEE doubles holding integers below 2^30): the exact
\* product when it has at most 53 bits, else the product rounded to 53
\* significant bits, ties to even.  The double is held as hi * 2^30 + lo.
DoubleProduct(x, y) ==
  LET B == Pow2(15)
      low == (x % B) * (y % B)
      mid == (x \div B) * (y % B) + (x % B) * (y \div B) + (low \div B)
      lo == (mid % B) * B + (low % B)
      hi == (x \div B) * (y \div B) + (mid \div B)
      k == IF BitLength(hi) + 30 > 53 THEN BitLength(hi) + 30 - 53 ELSE 0
      unit == Pow2(k)
      rest == lo % unit
      up == k > 0 /\ (2 * rest > unit \/ (2 * rest = unit /\ (lo \div unit) % 2 = 1))
      lo2 == lo - rest + (IF up THEN unit ELSE 0)
  IN [hi |-> hi + (lo2 \div Pow2(30)), lo |-> lo2 % Pow2(30)]

\* r * 2^n % p
RemShift[r \in Nat, n \in Nat, p \in Nat] ==
  IF n = 0 THEN r ELSE RemShift[(2 * r) % p, n - 1, p]

\* (x * y) % mod as mod_exp computes it: the product is a double, and the
\* remainder operator is exact
MulMod(x, y, mod) ==
  LET d == DoubleProduct(x, y)
  IN (RemShift[d.hi % mod, 30, mod] + (d.lo % mod)) % mod

\* the loop of CRYPTO.mod_exp: square and multiply, low bit of exp first
ModExpLoop[result \in Nat, b \in Nat, e \in Nat, mod \in Nat] ==
  IF e <= 0 THEN result
  ELSE ModExpLoop[IF e % 2 = 1 THEN MulMod(result, b, mod) ELSE result,
                  MulMod(b, b, mod), e \div 2, mod]

mod_exp(base, exp, mod) == ModExpLoop[1, base % mod, exp, mod]

\* n.toString(16).toUpperCase(), as the sequence of the string's code units
RECURSIVE to_HEX(_)
to_HEX(n) ==
  IF n < 16 THEN <<HexDigit(n)>> ELSE to_HEX(n \div 16) \o <<HexDigit(n % 16)>>

\* parseInt(h, 16): the leading hexadecimal digits of h; NaN is written -1
RECURSIVE ParseHex(_, _, _)
ParseHex(h, i, acc) ==
  IF i > Len(h) \/ HexValue(h[i]) = -1 THEN (IF i = 1 THEN -1 ELSE acc)
  ELSE ParseHex(h, i + 1, acc * 16 + HexValue(h[i]))

to_NUM(h) == ParseHex(h, 1, 0)

make_public(secret, mod, prime) == to_HEX(mod_exp(mod, secret, prime))

make_shared(secret, other, prime) == to_HEX(mod_exp(to_NUM(other), secret, prime))

\* ------------------------------------------------------------------ state

VARIABLES
  ENDPOINTS,   \* NET.ENDPOINTS: endpoint -> the id of its listener array
  arrays,      \* the listener arrays ever allocated, by id: each a sequence of listener ids
  listeners,   \* the listeners ever created by NET.listen, by id
  buffer,      \* per listener, the `buffer` map of NET.listen: guid -> fragment
  msgs,        \* the messages ever handed to NET.emit, by guid
  jobs,        \* the dispatcher jobs, one per broadcast fragment: <<guid, position>> -> job
  seen,        \* history: per listener, the <<guid, index>> it was run with
  late,        \* history: per listener, the guids of which it got a fragment after one of higher index
  fin,         \* history: per listener, the guids whose completion test came out true
  calls,       \* history: per listener, the <<guid, value, n>> of the n-th call of its callback for guid
  offs,        \* history: per listener, how often its deregistration closure was called
  resolved,    \* per invoke listener, <<>> while its promise is pending, else <<value>>
  enc_force,   \* DirectIPC: per manager id, its _enc_force
  enc_map,     \* DirectIPC: per manager id, its _enc_map: the entries [key, enc, live] in insertion order, enc <<>> for `false`
  con_map,     \* DirectIPC: per manager id, its _con_map: peer id -> index into cons
  cons,        \* DirectIPC: the Connection objects ever constructed, with the calls of terminate
  connects,    \* DirectIPC: the calls of ConnectionManager.connect: promise, timer, listener
  input,       \* the argument a pure function is applied to
  output,      \* its result, <<>> before it is applied
  protoBuffer  \* the PROTO.Buffer under test, <<>> when there is none

\* the state of the NET namespace and of the jobs
net == <<ENDPOINTS, arrays, listeners, buffer, msgs, jobs, seen, late, fin, calls, offs, resolved>>

\* the state of the DirectIPC objects
direct == <<enc_force, enc_map, con_map, cons, connects>>

pure == <<input, output, protoBuffer>>

vars == <<net, direct, pure>>

Channels == {"test"}

\* the strings the script sends: "A" (one fragment under FRAG_MAX = 4) and
\* "ABCD" (three)
Values == {<<65>>, <<65, 66, 67, 68>>}

\* the strings of two messages that are on their way at once: "AB" and "ABC"
\* (two fragments each under FRAG_MAX = 4)
PairValues == {<<65, 66>>, <<65, 66, 67>>}

\* the result of the script's handler: "const" returns "R" for any input,
\* "switch" is the README's handler ('status' -> 'inactive', 'size' -> 100),
\* with one-letter strings: "S" -> "I", anything else -> "N"
HandlerResult(fn, value) ==
  IF fn = "const" THEN <<82>>
  ELSE IF value = <<83>> THEN <<73>> ELSE <<78>>

HandlerFns == {"const", "switch"}

\* the arguments the script invokes with: "S" and "Z"
Args == {<<83>>, <<90>>}

\* NET.emit's encoding of a value: the String codec, then NET.serialize with
\* FRAG_MAX (tabulated over the values the scripts use)
Payloads ==
  Values \cup PairValues \cup Args \cup {HandlerResult(fn, x) : fn \in HandlerFns, x \in Args}

ChunkTable == [v \in Payloads |-> NetSerialize(StringSerialize(v), FRAG_MAX)]

Chunks(value) == ChunkTable[value]

\* the `ipc:${channel}:send|invoke|handle` endpoint names of the IPC facade
EndpointOf(channel, suffix) == <<"ipc", channel, suffix>>

\* the endpoint a listener of each kind listens on (IPC.on, once, invoke, handle)
ListenEndpoint(kind, channel) ==
  EndpointOf(channel, CASE kind = "on" -> "send"
                        [] kind = "once" -> "send"
                        [] kind = "invoke" -> "handle"
                        [] kind = "handle" -> "invoke")

EmptyMap == [x \in {} |-> 0]

\* a delete that empties the map
MapClear(f, k) == [x \in {} |-> f[x]]

\* Map.prototype.delete
MapRemove(f, k) == [x \in DOMAIN f \ {k} |-> f[x]]

\* no ConnectionManager constructed
DirectIdle ==
  /\ enc_force = EmptyMap
  /\ enc_map = EmptyMap
  /\ con_map = EmptyMap
  /\ cons = <<>>
  /\ connects = <<>>

\* no pure function under test
PureIdle ==
  /\ input = <<>>
  /\ output = <<>>
  /\ protoBuffer = <<>>

\* the NET namespace when the module is loaded
NetInit ==
  /\ ENDPOINTS = EmptyMap
  /\ arrays = <<>>
  /\ listeners = <<>>
  /\ buffer = <<>>
  /\ msgs = <<>>
  /\ jobs = EmptyMap
  /\ seen = <<>>
  /\ late = <<>>
  /\ fin = <<>>
  /\ calls = <<>>
  /\ offs = <<>>
  /\ resolved = <<>>

Init == NetInit /\ DirectIdle /\ PureIdle

\* ---------------------------------------------------------- the registry

\* create_listener, up to `listeners.push(listener)`: the registry and the
\* arrays after listener l registered on endpoint, and the array it captured
CreateListener(E, A, endpoint, l) ==
  IF endpoint \in DOMAIN E
    THEN [E |-> E, A |-> [A EXCEPT ![E[endpoint]] = Append(@, l)], arr |-> E[endpoint]]
    ELSE [E |-> (endpoint :> (Len(A) + 1)) @@ E, A |-> Append(A, <<l>>), arr |-> Len(A) + 1]

\* the kinds of listener the DirectIPC classes register: the managers'
\* synchronize and terminate listeners, connect's acknowledge listener, and
\* those of the methods of Connection and ConnectionManager
DirectKinds ==
  {"sync", "term", "ack", "con_on", "con_once", "con_handle", "con_invoke",
   "mgr_on", "mgr_once", "mgr_handle", "mgr_invoke"}

\* the `endpoint` the closure of listener l holds
EndpointOfListener(l) ==
  IF listeners[l].kind \in DirectKinds THEN listeners[l].endpoint
  ELSE ListenEndpoint(listeners[l].kind, listeners[l].channel)

\* a closure that leaves the entry of an emptied array in ENDPOINTS
EntryKept(E, A2, l) == E

\* the closure create_listener returns, called for listener l: it works on
\* the array captured at registration, whatever ENDPOINTS holds by now
EntryRemovedWhenEmpty(E, A2, l) ==
  IF A2[listeners[l].arr] = <<>>
    THEN MapRemove(E, EndpointOfListener(l))
    ELSE E

Deregister(E, A, l) ==
  LET A2 == [A EXCEPT ![listeners[l].arr] = Without(@, l)]
  IN [E |-> EntryRemovedWhenEmpty(E, A2, l), A |-> A2]

\* NET.listen + create_listener for a new listener of the given kind
Register(kind, channel, fn) ==
  LET l == Len(listeners) + 1
      r == CreateListener(ENDPOINTS, arrays, ListenEndpoint(kind, channel), l)
  IN /\ ENDPOINTS' = r.E
     /\ arrays' = r.A
     /\ listeners' = Append(listeners, [kind |-> kind, channel |-> channel, arr |-> r.arr,
                                        fn |-> fn])
     /\ buffer' = Append(buffer, EmptyMap)
     /\ seen' = Append(seen, {})
     /\ late' = Append(late, {})
     /\ fin' = Append(fin, {})
     /\ calls' = Append(calls, {})
     /\ offs' = Append(offs, 0)
     /\ resolved' = Append(resolved, <<>>)

NumKind(K) == Cardinality({l \in DOMAIN listeners : listeners[l].kind \in K})

NumTop(suffix) == Cardinality({g \in DOMAIN msgs : msgs[g].top /\ msgs[g].endpoint[3] = suffix})

RECURSIVE SumChunks(_)
SumChunks(g) == IF g = 0 THEN 0 ELSE Len(msgs[g].chunks) + SumChunks(g - 1)

NumChunks == SumChunks(Len(msgs))

\* ------------------------------------------------------------- NET.emit

\* the message NET.emit builds: a fresh guid (its place in msgs), the chunks of
\* the encoded value, none broadcast yet
NewMsg(endpoint, value, top, from) ==
  [endpoint |-> endpoint, value |-> value,
   chunks |-> Chunks(value),
   sent |-> 0, top |-> top, from |-> from, at |-> Len(listeners), source |-> "Server"]

\* ----------------------------------------------------------- NET.listen

NoFragment == [size |-> -1, serialized_packets |-> EmptyMap, data_size |-> 0]

\* an update that counts the fragments instead of summing index + 1
StoredCounting(f, index, final, chunk) ==
  [size |-> IF final THEN index + 1 ELSE f.size,
   serialized_packets |-> (index :> chunk) @@ f.serialized_packets,
   data_size |-> f.data_size + 1]

\* the listener's update of its fragment record for header {guid, index, final}
Stored(f, index, final, chunk) ==
  [size |-> IF final THEN index + 1 ELSE f.size,
   serialized_packets |-> (index :> chunk) @@ f.serialized_packets,
   data_size |-> f.data_size + index + 1]

\* a completion test that fires as soon as the final fragment is in
CompleteOnFinal(f) == f.size # -1

\* the completion test of the listener
Complete(f) == f.size # -1 /\ f.data_size = (f.size * (f.size + 1)) \div 2

\* a decoding that threw
NoValue == [ok |-> FALSE, value |-> <<>>]

DecodeValue(strings) ==
  LET d == StringDeserialize(NetDeserialize(strings)) IN [ok |-> d.ok, value |-> d.value]

\* NET.deserialize, then the String codec, of an array of strings (tabulated
\* over the arrays NET.emit produces)
DecodeTable == [c \in {Chunks(v) : v \in Payloads} |-> DecodeValue(c)]

DecodeStrings(strings) ==
  IF strings \in DOMAIN DecodeTable THEN DecodeTable[strings] ELSE DecodeValue(strings)

\* the listener's decoding of the sparse array of packets; a hole makes
\* NET.deserialize throw a TypeError
Decoded(packets) ==
  LET n == IF DOMAIN packets = {} THEN 0
           ELSE (CHOOSE m \in DOMAIN packets : \A k \in DOMAIN packets : k <= m) + 1
  IN IF DOMAIN packets # 0 .. (n - 1) THEN NoValue
     ELSE DecodeStrings([k \in 1 .. n |-> packets[k - 1]])

\* ------------------------------------------------- DirectIPC: the wire format

\* PROTO.Boolean
BooleanSerialize(value) == <<IF value THEN 1 ELSE 0>>

BooleanDeserialize(stream) ==
  IF stream = <<>> THEN [ok |-> FALSE, value |-> FALSE, rest |-> <<>>]
  ELSE [ok |-> TRUE, value |-> Head(stream) # 0, rest |-> Tail(stream)]

\* PROTO.UInt8Array: the length, then the bytes
UInt8ArraySerialize(value) == UVarInt32Serialize(Len(value)) \o value

UInt8ArrayDeserialize(stream) ==
  LET n == UVarInt32Deserialize(stream)
  IN IF ~n.ok \/ n.value > Len(n.rest) THEN [ok |-> FALSE, value |-> <<>>, rest |-> <<>>]
     ELSE [ok |-> TRUE, value |-> SubSeq(n.rest, 1, n.value),
           rest |-> SubSeq(n.rest, n.value + 1, Len(n.rest))]

\* the ids of the ConnectionManagers, in the order of their construction
ManagerIds == <<"A", "B", "C">>

Ids == Range(ManagerIds)

\* an id as a string: its code units
IdChars == ("A" :> <<65>>) @@ ("B" :> <<66>>) @@ ("C" :> <<67>>)

\* the id a decoded string is equal to ("?" when it is no manager's id)
IdOf(codes) ==
  IF \E id \in Ids : IdChars[id] = codes THEN CHOOSE id \in Ids : IdChars[id] = codes ELSE "?"

\* ConnectionSerializer = PROTO.Object({from: String, bytes: UInt8Array})
ConnectionSerialize(value) ==
  StringSerialize(IdChars[value.from]) \o UInt8ArraySerialize(value.bytes)

ConnectionDeserialize(stream) ==
  LET f == StringDeserialize(stream)
      b == UInt8ArrayDeserialize(f.rest)
  IN IF ~f.ok \/ ~b.ok THEN NoValue
     ELSE [ok |-> TRUE, value |-> [from |-> IdOf(f.value), bytes |-> b.value]]

\* HandshakeSynchronizeSerializer
SynchronizeSerialize(value) ==
  StringSerialize(IdChars[value.from])
    \o BooleanSerialize(value.encryption_enabled)
    \o StringSerialize(value.encryption_public_key)
    \o UVarInt32Serialize(value.encryption_prime)
    \o UVarInt32Serialize(value.encryption_modulus)

SynchronizeDeserialize(stream) ==
  LET f == StringDeserialize(stream)
      e == BooleanDeserialize(f.rest)
      k == StringDeserialize(e.rest)
      p == UVarInt32Deserialize(k.rest)
      m == UVarInt32Deserialize(p.rest)
  IN IF ~f.ok \/ ~e.ok \/ ~k.ok \/ ~p.ok \/ ~m.ok THEN NoValue
     ELSE [ok |-> TRUE,
           value |-> [from |-> IdOf(f.value), encryption_enabled |-> e.value,
                      encryption_public_key |-> k.value, encryption_prime |-> p.value,
                      encryption_modulus |-> m.value]]

\* HandshakeAcknowledgeSerializer
AcknowledgeSerialize(value) ==
  StringSerialize(IdChars[value.from])
    \o BooleanSerialize(value.encryption_enabled)
    \o StringSerialize(value.encryption_public_key)

AcknowledgeDeserialize(stream) ==
  LET f == StringDeserialize(stream)
      e == BooleanDeserialize(f.rest)
      k == StringDeserialize(e.rest)
  IN IF ~f.ok \/ ~e.ok \/ ~k.ok THEN NoValue
     ELSE [ok |-> TRUE,
           value |-> [from |-> IdOf(f.value), encryption_enabled |-> e.value,
                      encryption_public_key |-> k.value]]

\* the terminate message: PROTO.String of the sender's id
TerminateSerialize(value) == StringSerialize(IdChars[value])

TerminateDeserialize(stream) ==
  LET f == StringDeserialize(stream)
  IN IF ~f.ok THEN NoValue ELSE [ok |-> TRUE, value |-> IdOf(f.value)]

\* a ^ b on two bytes
RECURSIVE Xor(_, _, _)
Xor(a, b, bits) ==
  IF bits = 0 THEN 0
  ELSE ((a + b) % 2) + 2 * Xor(a \div 2, b \div 2, bits - 1)

\* CRYPTO.encrypt / CRYPTO.decrypt: byte i (0-based) is combined with
\* key.charCodeAt(i % key.length); the result is stored in a Uint8Array
Crypt(raw, key) ==
  [i \in 1 .. Len(raw) |-> Xor(raw[i], key[((i - 1) % Len(key)) + 1] % 256, 8)]

\* CRYPTO.encrypt(raw, key): `raw[i] ^ key.charCodeAt(i % key.length)` stored
\* in a Uint8Array, which keeps the low 8 bits; key is the list of the
\* string's char codes
encrypt(raw, key) ==
  [i \in 1 .. Len(raw) |-> Xor(raw[i], key[((i - 1) % Len(key)) + 1], 16) % 256]

\* a decrypt whose key position runs one ahead
decryptShifted(encrypted, key) ==
  [i \in 1 .. Len(encrypted) |-> Xor(encrypted[i], key[(i % Len(key)) + 1], 16) % 256]

\* CRYPTO.decrypt(encrypted, key)
decrypt(encrypted, key) ==
  [i \in 1 .. Len(encrypted) |-> Xor(encrypted[i], key[((i - 1) % Len(key)) + 1], 16) % 256]

\* MAYBE_ENCRYPT / MAYBE_DECRYPT: `false` is written <<>>
MaybeCrypt(bytes, enc) == IF enc # <<>> THEN Crypt(bytes, enc) ELSE bytes

\* the decoding a listener of each DirectIPC kind applies to the bytes
DirectDeserialize(kind, bytes) ==
  CASE kind = "sync" -> SynchronizeDeserialize(bytes)
    [] kind = "ack" -> AcknowledgeDeserialize(bytes)
    [] kind = "term" -> TerminateDeserialize(bytes)
    [] OTHER -> ConnectionDeserialize(bytes)

\* the decoding of listener l: NET.deserialize, then the listener's serializer
DecodedBy(l, packets) ==
  IF listeners[l].kind \notin DirectKinds THEN Decoded(packets)
  ELSE LET n == IF DOMAIN packets = {} THEN 0
                ELSE (CHOOSE m \in DOMAIN packets : \A k \in DOMAIN packets : k <= m) + 1
       IN IF DOMAIN packets # 0 .. (n - 1) THEN NoValue
          ELSE DirectDeserialize(listeners[l].kind,
                                 NetDeserialize([k \in 1 .. n |-> packets[k - 1]]))

\* the job the scriptEventReceive subscriber starts for one event
NewJob ==
  [pc |-> "lookup", arr |-> 0, i |-> 0, cur |-> 0, dec |-> NoValue, errors |-> <<>>,
   reply |-> 0, snap |-> <<>>, ran |-> <<>>, selfOff |-> {}, raised |-> FALSE]

\* the call history after one more call of the callback, for guid g with value
Called(cs, g, value) == cs \cup {<<g, value, Cardinality({c \in cs : c[1] = g}) + 1>>}

\* The dispatcher's loop over `listeners` from position `from` on, for the
\* fragment at position p of message g, up to the next yield: every listener
\* that does not complete returns without yielding, the first that completes
\* yields inside NET.deserialize, where its packets are decoded.  arr is
\* the live array, buf/sn/lt/fn the state.
Advance(arr, buf, sn, lt, fn, job, from, g, p) ==
  LET n == Len(arr)
      index == p - 1
      final == (p = Len(msgs[g].chunks))
      chunk == msgs[g].chunks[p]
      After(l) == Stored(IF g \in DOMAIN buf[l] THEN buf[l][g] ELSE NoFragment,
                         index, final, chunk)
      hits == {k \in from .. n : Complete(After(arr[k]))}
      stop == IF hits = {} THEN n + 1 ELSE Min(hits)
      last == IF stop > n THEN n ELSE stop
      touched == {arr[k] : k \in from .. last}
      run == SubSeq(arr, from, last)
  IN [buffer |-> [l \in DOMAIN buf |-> IF l \in touched THEN (g :> After(l)) @@ buf[l] ELSE buf[l]],
      seen |-> [l \in DOMAIN sn |-> IF l \in touched THEN sn[l] \cup {<<g, index>>} ELSE sn[l]],
      late |-> [l \in DOMAIN lt |->
                 IF l \in touched /\ \E k \in DOMAIN After(l).serialized_packets : k > index
                   THEN lt[l] \cup {g} ELSE lt[l]],
      fin |-> [l \in DOMAIN fn |-> IF stop <= n /\ l = arr[stop] THEN fn[l] \cup {g} ELSE fn[l]],
      job |-> IF stop <= n
                THEN [job EXCEPT !.pc = "call", !.i = stop, !.cur = arr[stop],
                                 !.dec = DecodedBy(arr[stop], After(arr[stop]).serialized_packets),
                                 !.ran = @ \o run]
                ELSE [job EXCEPT !.pc = "done", !.i = n + 1, !.cur = 0, !.dec = NoValue,
                                 !.ran = @ \o run, !.raised = (job.errors # <<>>)]]

\* the dispatcher job j after its loop ran on: r is what Advance returned
Advanced(j, r) ==
  /\ buffer' = r.buffer
  /\ seen' = r.seen
  /\ late' = r.late
  /\ fin' = r.fin
  /\ jobs' = [jobs EXCEPT ![j] = r.job]

\* ------------------------------------------------------- the script's calls

\* IPC.on(channel, String, listener)
On(channel) ==
  /\ NumKind({"on", "once"}) < MaxListeners
  /\ Register("on", channel, "none")
  /\ UNCHANGED <<msgs, jobs>>

\* IPC.once(channel, String, listener)
Once(channel) ==
  /\ NumKind({"on", "once"}) < MaxListeners
  /\ Register("once", channel, "none")
  /\ UNCHANGED <<msgs, jobs>>

\* IPC.send(channel, String, value): system.runJob(NET.emit(...))
Send(channel, value) ==
  /\ NumTop("send") < MaxSends
  /\ NumChunks + Len(Chunks(value)) <= MaxChunks
  /\ msgs' = Append(msgs, NewMsg(EndpointOf(channel, "send"), value, TRUE, 0))
  /\ UNCHANGED <<ENDPOINTS, arrays, listeners, buffer, jobs, seen, late, fin, calls, offs, resolved>>

\* the script calls the closure that on / once / handle returned
Off(l) ==
  /\ listeners[l].kind \in {"on", "once", "handle"}
  /\ offs[l] < MaxOff
  /\ LET r == Deregister(ENDPOINTS, arrays, l)
     IN /\ ENDPOINTS' = r.E
        /\ arrays' = r.A
  /\ offs' = [offs EXCEPT ![l] = @ + 1]
  /\ UNCHANGED <<listeners, buffer, msgs, jobs, seen, late, fin, calls, resolved>>

\* IPC.handle(channel, String, String, listener).  The script registers its
\* handlers, all with its one handler function, before it issues a request
Handle(channel, fn) ==
  /\ NumKind({"handle"}) < MaxHandlers
  /\ msgs = <<>>
  /\ \A h \in DOMAIN listeners : listeners[h].kind = "handle" => listeners[h].fn = fn
  /\ Register("handle", channel, fn)
  /\ UNCHANGED <<msgs, jobs>>

\* IPC.invoke(channel, String, value, String): NET.listen on the handle
\* endpoint, then system.runJob(NET.emit(...)) on the invoke endpoint
Invoke(channel, value) ==
  /\ NumKind({"invoke"}) < MaxInvokes
  /\ Register("invoke", channel, "none")
  /\ msgs' = Append(msgs, NewMsg(EndpointOf(channel, "invoke"), value, TRUE, Len(listeners) + 1))
  /\ UNCHANGED jobs

\* ----------------------------------------------------------- the jobs' slices

\* NET.emit as a job of its own: system.sendScriptEvent for the next chunk; the
\* host hands the event to the subscriber, which starts a dispatcher job
EmitStep(g) ==
  /\ msgs[g].top
  /\ msgs[g].sent < Len(msgs[g].chunks)
  /\ msgs' = [msgs EXCEPT ![g].sent = @ + 1]
  /\ jobs' = (<<g, msgs[g].sent + 1>> :> NewJob) @@ jobs
  /\ UNCHANGED <<ENDPOINTS, arrays, listeners, buffer, seen, late, fin, calls, offs, resolved>>

\* a dispatcher that throws for an endpoint without listeners
LookupThrowing(j) ==
  /\ jobs[j].pc = "lookup"
  /\ LET endpoint == msgs[j[1]].endpoint
     IN jobs' = [jobs EXCEPT ![j] =
          IF msgs[j[1]].source = "Server" /\ endpoint \in DOMAIN ENDPOINTS
            THEN [@ EXCEPT !.pc = "loop", !.arr = ENDPOINTS[endpoint], !.i = 1,
                           !.snap = arrays[ENDPOINTS[endpoint]]]
            ELSE [@ EXCEPT !.pc = "done", !.raised = TRUE]]
  /\ UNCHANGED <<ENDPOINTS, arrays, listeners, buffer, msgs, seen, late, fin, calls, offs, resolved>>

\* a dispatcher that looks the endpoint up whatever the event's source is
LookupAnySource(j) ==
  /\ jobs[j].pc = "lookup"
  /\ LET endpoint == msgs[j[1]].endpoint
     IN jobs' = [jobs EXCEPT ![j] =
          IF endpoint \in DOMAIN ENDPOINTS
            THEN [@ EXCEPT !.pc = "loop", !.arr = ENDPOINTS[endpoint], !.i = 1,
                           !.snap = arrays[ENDPOINTS[endpoint]]]
            ELSE [@ EXCEPT !.pc = "done"]]
  /\ UNCHANGED <<ENDPOINTS, arrays, listeners, buffer, msgs, seen, late, fin, calls, offs, resolved>>

\* dispatcher: an event whose sourceType is not Server ends the job; else the
\* endpoint is decoded, `ENDPOINTS.get(endpoint)`
Lookup(j) ==
  /\ jobs[j].pc = "lookup"
  /\ LET endpoint == msgs[j[1]].endpoint
     IN jobs' = [jobs EXCEPT ![j] =
          IF msgs[j[1]].source = "Server" /\ endpoint \in DOMAIN ENDPOINTS
            THEN [@ EXCEPT !.pc = "loop", !.arr = ENDPOINTS[endpoint], !.i = 1,
                           !.snap = arrays[ENDPOINTS[endpoint]]]
            ELSE [@ EXCEPT !.pc = "done"]]
  /\ UNCHANGED <<ENDPOINTS, arrays, listeners, buffer, msgs, seen, late, fin, calls, offs, resolved>>

\* dispatcher: the header is decoded, the loop over the listeners starts
Loop(j) ==
  /\ jobs[j].pc = "loop"
  /\ Advanced(j, Advance(arrays[jobs[j].arr], buffer, seen, late, fin, jobs[j], jobs[j].i,
                          j[1], j[2]))
  /\ UNCHANGED <<ENDPOINTS, arrays, listeners, msgs, calls, offs, resolved>>

\* a completed listener after its decoding: the callback of on / once / invoke
\* (or the decoding error), `buffer.delete`, and the dispatcher's loop on to the
\* next yield.  throws: the script's listener raises an error in this call (the
\* callback of invoke calls no script code)
Call(j, throws) ==
  /\ jobs[j].pc = "call"
  /\ LET job == jobs[j]
         g == j[1]
         l == job.cur
         kind == listeners[l].kind
         dec == job.dec
         threw == ~dec.ok \/ throws
         terminated == dec.ok /\ ~threw /\ kind \in {"once", "invoke"}
         reg == IF terminated THEN Deregister(ENDPOINTS, arrays, l)
                ELSE [E |-> ENDPOINTS, A |-> arrays]
         buf == IF threw THEN buffer ELSE [buffer EXCEPT ![l] = MapRemove(@, g)]
         job2 == [job EXCEPT !.errors = IF threw THEN Append(@, l) ELSE @,
                             !.selfOff = IF terminated THEN @ \cup {l} ELSE @]
     IN /\ kind # "handle" \/ ~dec.ok
        /\ throws => dec.ok /\ kind \in {"on", "once"}
        /\ calls' = IF dec.ok THEN [calls EXCEPT ![l] = Called(@, g, dec.value)] ELSE calls
        /\ resolved' = IF dec.ok /\ kind = "invoke" /\ resolved[l] = <<>>
                         THEN [resolved EXCEPT ![l] = <<dec.value>>]
                         ELSE resolved
        /\ offs' = IF terminated THEN [offs EXCEPT ![l] = @ + 1] ELSE offs
        /\ ENDPOINTS' = reg.E
        /\ arrays' = reg.A
        /\ Advanced(j, Advance(reg.A[job.arr], buf, seen, late, fin, job2, job.i + 1, g, j[2]))
  /\ UNCHANGED <<listeners, msgs>>

\* a completed handle listener after its decoding: the script's handler runs,
\* NET.emit of its result starts inside this job
CallHandle(j) ==
  /\ jobs[j].pc = "call"
  /\ LET job == jobs[j]
         l == job.cur
         dec == job.dec
     IN /\ listeners[l].kind = "handle"
        /\ dec.ok
        /\ calls' = [calls EXCEPT ![l] = Called(@, j[1], dec.value)]
        /\ msgs' = Append(msgs, NewMsg(EndpointOf(listeners[l].channel, "handle"),
                                       HandlerResult(listeners[l].fn, dec.value), FALSE, 0))
        /\ jobs' = [jobs EXCEPT ![j] = [@ EXCEPT !.pc = "reply", !.reply = Len(msgs) + 1]]
  /\ UNCHANGED <<ENDPOINTS, arrays, listeners, buffer, seen, late, fin, offs, resolved>>

\* NET.emit inside a handle listener: system.sendScriptEvent for the next chunk
\* of the reply; after the last one the listener's `buffer.delete` and the
\* dispatcher's loop on to the next yield
Reply(j) ==
  /\ jobs[j].pc = "reply"
  /\ LET job == jobs[j]
         m == job.reply
         pos == msgs[m].sent + 1
         buf == [buffer EXCEPT ![job.cur] = MapRemove(@, j[1])]
         r == IF pos = Len(msgs[m].chunks)
                THEN Advance(arrays[job.arr], buf, seen, late, fin, job, job.i + 1, j[1], j[2])
                ELSE [buffer |-> buffer, seen |-> seen, late |-> late, fin |-> fin, job |-> job]
     IN /\ msgs' = [msgs EXCEPT ![m].sent = pos]
        /\ buffer' = r.buffer
        /\ seen' = r.seen
        /\ late' = r.late
        /\ fin' = r.fin
        /\ jobs' = (<<m, pos>> :> NewJob) @@ [jobs EXCEPT ![j] = r.job]
  /\ UNCHANGED <<ENDPOINTS, arrays, listeners, calls, offs, resolved>>

\* ------------------------------------------------------------- DirectIPC

\* the manager whose script calls connect, and the managers it connects to
Initiator == "A"

Peers == Ids \ {Initiator}

SynchronizeEndpoint(id) == <<"ipc", id, "handshake", "synchronize">>

AcknowledgeEndpoint(id) == <<"ipc", id, "handshake", "acknowledge">>

TerminateEndpoint(id) == <<"ipc", id, "terminate">>

\* `ipc:${id}:manager:${channel}:send|invoke|handle`
ManagerEndpoint(id, channel, suffix) == <<"ipc", id, "manager", channel, suffix>>

\* `ipc:${id}:connection:${channel}:send|invoke|handle`
ConnectionEndpoint(id, channel, suffix) == <<"ipc", id, "connection", channel, suffix>>

\* the bytes NET.emit is given, by the serializer of the endpoint's listeners
DirectSerialize(kind, value) ==
  CASE kind = "sync" -> SynchronizeSerialize(value)
    [] kind = "ack" -> AcknowledgeSerialize(value)
    [] kind = "term" -> TerminateSerialize(value)
    [] OTHER -> ConnectionSerialize(value)

\* the message NET.emit builds for a DirectIPC value
DirectMsg(endpoint, kind, value, top) ==
  [endpoint |-> endpoint, value |-> value,
   chunks |-> NetSerialize(DirectSerialize(kind, value), DirectFragMax),
   sent |-> 0, top |-> top, from |-> 0, at |-> Len(listeners), source |-> "Server"]

\* the record of a listener of a DirectIPC object: mgr is the manager it
\* belongs to, ref the connect call (ack) or the Connection, fn the script's
\* handler
DirectListener(kind, endpoint, mgr, ref, channel, fn, arr) ==
  [kind |-> kind, channel |-> channel, arr |-> arr, fn |-> fn, endpoint |-> endpoint,
   mgr |-> mgr, ref |-> ref, peer |-> "", enc |-> <<>>]

\* NET.listen + create_listener for a listener of a DirectIPC object
RegisterDirect(kind, endpoint, mgr, ref, channel, fn) ==
  LET l == Len(listeners) + 1
      r == CreateListener(ENDPOINTS, arrays, endpoint, l)
  IN /\ ENDPOINTS' = r.E
     /\ arrays' = r.A
     /\ listeners' = Append(listeners,
                             DirectListener(kind, endpoint, mgr, ref, channel, fn, r.arr))
     /\ buffer' = Append(buffer, EmptyMap)
     /\ seen' = Append(seen, {})
     /\ late' = Append(late, {})
     /\ fin' = Append(fin, {})
     /\ calls' = Append(calls, {})
     /\ offs' = Append(offs, 0)
     /\ resolved' = Append(resolved, <<>>)

\* Map.prototype.has / get / set / delete on an _enc_map: the list of the
\* entries ever added, in insertion order; a deleted entry stays in the list
\* as an empty one (live = FALSE), a value set again keeps its entry
EncHas(map, key) == \E i \in DOMAIN map : map[i].live /\ map[i].key = key

EncGet(map, key) == map[CHOOSE i \in DOMAIN map : map[i].live /\ map[i].key = key].enc

EncSet(map, key, enc) ==
  IF EncHas(map, key)
    THEN [i \in DOMAIN map |->
           IF map[i].live /\ map[i].key = key THEN [map[i] EXCEPT !.enc = enc] ELSE map[i]]
    ELSE Append(map, [key |-> key, enc |-> enc, live |-> TRUE])

\* a delete that leaves the map as it is
EncKeep(map, key) == map

EncDelete(map, key) ==
  [i \in DOMAIN map |-> IF map[i].key = key THEN [map[i] EXCEPT !.live = FALSE] ELSE map[i]]

\* the listeners the constructor of each ConnectionManager registers: the
\* synchronize listener, then the terminate listener
ManagerListeners ==
  [i \in 1 .. 2 * Len(ManagerIds) |->
    LET id == ManagerIds[(i + 1) \div 2]
    IN DirectListener(IF i % 2 = 1 THEN "sync" ELSE "term",
                      IF i % 2 = 1 THEN SynchronizeEndpoint(id) ELSE TerminateEndpoint(id),
                      id, 0, "", "none", i)]

\* the state after `new ConnectionManager(id, force_encryption)` for every id;
\* the responder "B" is constructed with or without force_encryption
InitDirect ==
  /\ listeners = ManagerListeners
  /\ arrays = [i \in DOMAIN ManagerListeners |-> <<i>>]
  /\ ENDPOINTS = [e \in {ManagerListeners[i].endpoint : i \in DOMAIN ManagerListeners} |->
                   CHOOSE i \in DOMAIN ManagerListeners : ManagerListeners[i].endpoint = e]
  /\ buffer = [i \in DOMAIN ManagerListeners |-> EmptyMap]
  /\ msgs = <<>>
  /\ jobs = EmptyMap
  /\ seen = [i \in DOMAIN ManagerListeners |-> {}]
  /\ late = [i \in DOMAIN ManagerListeners |-> {}]
  /\ fin = [i \in DOMAIN ManagerListeners |-> {}]
  /\ calls = [i \in DOMAIN ManagerListeners |-> {}]
  /\ offs = [i \in DOMAIN ManagerListeners |-> 0]
  /\ resolved = [i \in DOMAIN ManagerListeners |-> <<>>]
  /\ enc_force \in {f \in [Ids -> BOOLEAN] : \A id \in Ids \ {"B"} : ~f[id]}
  /\ enc_map = [id \in Ids |-> <<>>]
  /\ con_map = [id \in Ids |-> EmptyMap]
  /\ cons = <<>>
  /\ connects = <<>>
  /\ PureIdle

\* the closures in ls called one after the other
RECURSIVE DeregisterAll(_, _, _)
DeregisterAll(E, A, ls) ==
  IF ls = <<>> THEN [E |-> E, A |-> A]
  ELSE LET r == Deregister(E, A, Head(ls)) IN DeregisterAll(r.E, r.A, Tail(ls))

\* Connection.terminate without its notification: every terminator is called,
\* then the list is emptied
RunTerminators(c) ==
  LET ls == cons[c].terminators
      r == DeregisterAll(ENDPOINTS, arrays, ls)
  IN /\ ENDPOINTS' = r.E
     /\ arrays' = r.A
     /\ offs' = [l \in DOMAIN offs |-> offs[l] + Cardinality({i \in DOMAIN ls : ls[i] = l})]

\* a terminate that notifies the peer whatever its argument
NotifiedAlways(c, notify) ==
  Append(msgs, DirectMsg(TerminateEndpoint(cons[c].to), "term", cons[c].from, TRUE))

\* the messages after Connection.terminate(notify): with notify, NET.emit of
\* the Connection's own id to the peer's terminate endpoint
Notified(c, notify) ==
  IF notify
    THEN Append(msgs, DirectMsg(TerminateEndpoint(cons[c].to), "term", cons[c].from, TRUE))
    ELSE msgs

\* the Connections the script holds: those a connect promise resolved with
Held == {connects[k].con : k \in {n \in DOMAIN connects : connects[n].promise = "resolved"}}

\* ConnectionManager.connect(to, encrypted, timeout, mod, DirectPrime) of the
\* initiator; secret is the value of CRYPTO.make_secret
Connecting(to, encrypted, secret, mod) ==
  /\ IF to \in DOMAIN con_map[Initiator]
       THEN LET c == con_map[Initiator][to]
            IN /\ RunTerminators(c)
               /\ cons' = [cons EXCEPT ![c].terminators = <<>>, ![c].notify = FALSE]
               /\ connects' = Append(connects,
                    [to |-> to, encrypted |-> encrypted, secret |-> secret,
                     promise |-> "resolved", con |-> c, timer |-> "none", listener |-> 0,
                     sync |-> 0])
               /\ msgs' = Notified(c, FALSE)
               /\ UNCHANGED <<listeners, buffer, seen, late, fin, calls, resolved>>
       ELSE /\ RegisterDirect("ack", AcknowledgeEndpoint(Initiator), Initiator,
                              Len(connects) + 1, "", "none")
            /\ msgs' = Append(msgs, DirectMsg(SynchronizeEndpoint(to), "sync",
                    [from |-> Initiator, encryption_enabled |-> encrypted,
                     encryption_public_key |-> make_public(secret, mod, DirectPrime),
                     encryption_prime |-> DirectPrime, encryption_modulus |-> mod],
                    TRUE))
            /\ connects' = Append(connects,
                    [to |-> to, encrypted |-> encrypted, secret |-> secret,
                     promise |-> "pending", con |-> 0, timer |-> "armed",
                     listener |-> Len(listeners) + 1, sync |-> Len(msgs) + 1])
            /\ UNCHANGED cons
  /\ UNCHANGED <<jobs, enc_force, enc_map, con_map>>

\* connect(to, encrypted, timeout, DirectMod, DirectPrime) by a script that
\* awaits the promise of one connect before it calls the next
Connect(to, encrypted, secret) ==
  /\ Len(connects) < MaxConnects
  /\ \A k \in DOMAIN connects : connects[k].promise # "pending"
  /\ Connecting(to, encrypted, secret, DirectMod)

\* connect(to, encrypted, timeout, mod, DirectPrime) by a script that does not
\* wait for the promises of its earlier calls
ConnectMeanwhile(to, encrypted, secret, mod) ==
  /\ Len(connects) < MaxConnects
  /\ Connecting(to, encrypted, secret, mod)

\* a timeout that leaves the promise as it is
Unsettled(promise) == promise

\* reject() of a promise: a settled promise stays as it is
Reject(promise) == IF promise = "pending" THEN "rejected" ELSE promise

\* the callback of connect's system.runTimeout: reject(), then clear()
Timeout(k) ==
  /\ connects[k].timer = "armed"
  /\ LET r == Deregister(ENDPOINTS, arrays, connects[k].listener)
     IN /\ ENDPOINTS' = r.E
        /\ arrays' = r.A
  /\ offs' = [offs EXCEPT ![connects[k].listener] = @ + 1]
  /\ connects' = [connects EXCEPT ![k].timer = "fired",
                                  ![k].promise = Reject(@)]
  /\ UNCHANGED <<listeners, buffer, msgs, jobs, seen, late, fin, calls, resolved,
                 enc_force, enc_map, con_map, cons>>

\* Connection.terminate(notify) called by the script
ConTerminate(c, notify) ==
  /\ c \in Held
  /\ cons[c].terminates < MaxTerminates
  /\ RunTerminators(c)
  /\ cons' = [cons EXCEPT ![c].terminators = <<>>, ![c].terminates = @ + 1,
                          ![c].notify = notify]
  /\ msgs' = Notified(c, notify)
  /\ UNCHANGED <<listeners, buffer, jobs, seen, late, fin, calls, resolved,
                 enc_force, enc_map, con_map, connects>>

\* the end of a listener's callback in dispatcher job j: `buffer.delete(guid)`
\* unless the callback threw (the dispatcher catches the error), then the
\* dispatcher's loop on to the next yield, over the arrays A
Return(j, A, off, threw) ==
  LET job == jobs[j]
      l == job.cur
      buf == IF threw THEN buffer ELSE [buffer EXCEPT ![l] = MapRemove(@, j[1])]
      job2 == [job EXCEPT !.selfOff = IF off THEN @ \cup {l} ELSE @,
                          !.errors = IF threw THEN Append(@, l) ELSE @]
  IN Advanced(j, Advance(A[job.arr], buf, seen, late, fin, job2, job.i + 1, j[1], j[2]))

\* the synchronize listener of a manager, from its decoded message to NET.emit
\* of the acknowledge; secret is the value of CRYPTO.make_secret
SyncCall(j, secret) ==
  /\ jobs[j].pc = "call"
  /\ listeners[jobs[j].cur].kind = "sync"
  /\ jobs[j].dec.ok
  /\ LET l == jobs[j].cur
         id == listeners[l].mgr
         data == jobs[j].dec.value
         public_key == make_public(secret, data.encryption_modulus, data.encryption_prime)
         enc == IF data.encryption_enabled \/ enc_force[id]
                  THEN make_shared(secret, data.encryption_public_key, data.encryption_prime)
                  ELSE <<>>
     IN /\ secret \in 1 .. (data.encryption_modulus - 1)
        /\ enc_map' = [enc_map EXCEPT ![id] = EncSet(@, data.from, enc)]
        /\ msgs' = Append(msgs, DirectMsg(AcknowledgeEndpoint(data.from), "ack",
                     [from |-> id, encryption_enabled |-> enc_force[id],
                      encryption_public_key |-> public_key], FALSE))
        /\ calls' = [calls EXCEPT ![l] = Called(@, j[1], data)]
        /\ jobs' = [jobs EXCEPT ![j] = [@ EXCEPT !.pc = "reply", !.reply = Len(msgs) + 1]]
  /\ UNCHANGED <<ENDPOINTS, arrays, listeners, buffer, seen, late, fin, offs, resolved,
                 enc_force, con_map, cons, connects>>

\* a test that takes any manager's acknowledge for the peer's
AckFromAnyone(data, k) == TRUE

\* connect's test of an acknowledge: `data.from === to`
AckFromPeer(data, k) == data.from = connects[k].to

\* the acknowledge listener of a connect call: for the peer's acknowledge a
\* Connection is made and stored, the promise resolved, the listener removed
\* and the timeout cleared
AckCall(j) ==
  /\ jobs[j].pc = "call"
  /\ listeners[jobs[j].cur].kind = "ack"
  /\ jobs[j].dec.ok
  /\ LET l == jobs[j].cur
         id == listeners[l].mgr
         k == listeners[l].ref
         data == jobs[j].dec.value
         enc == IF data.encryption_enabled \/ connects[k].encrypted
                  THEN make_shared(connects[k].secret, data.encryption_public_key, DirectPrime)
                  ELSE <<>>
         reg == Deregister(ENDPOINTS, arrays, l)
     IN /\ calls' = [calls EXCEPT ![l] = Called(@, j[1], data)]
        /\ IF AckFromPeer(data, k)
             THEN /\ cons' = Append(cons, [from |-> id, to |-> connects[k].to, enc |-> enc,
                                           terminators |-> <<>>, terminates |-> 0,
                                           notify |-> FALSE])
                  /\ con_map' = [con_map EXCEPT ![id] = (connects[k].to :> (Len(cons) + 1)) @@ @]
                  /\ connects' = [connects EXCEPT
                       ![k].con = IF connects[k].promise = "pending" THEN Len(cons) + 1 ELSE @,
                       ![k].promise = IF @ = "pending" THEN "resolved" ELSE @,
                       ![k].timer = IF @ = "armed" THEN "cleared" ELSE @]
                  /\ ENDPOINTS' = reg.E
                  /\ arrays' = reg.A
                  /\ offs' = [offs EXCEPT ![l] = @ + 1]
                  /\ Return(j, reg.A, TRUE, FALSE)
             ELSE /\ UNCHANGED <<cons, con_map, connects, ENDPOINTS, arrays, offs>>
                  /\ Return(j, arrays, FALSE, FALSE)
  /\ UNCHANGED <<listeners, msgs, resolved, enc_force, enc_map>>

\* the terminate listener of a manager: `_enc_map.delete(value)`
TermCall(j) ==
  /\ jobs[j].pc = "call"
  /\ listeners[jobs[j].cur].kind = "term"
  /\ jobs[j].dec.ok
  /\ LET l == jobs[j].cur
     IN /\ enc_map' = [enc_map EXCEPT ![listeners[l].mgr] = EncDelete(@, jobs[j].dec.value)]
        /\ calls' = [calls EXCEPT ![l] = Called(@, j[1], jobs[j].dec.value)]
  /\ Return(j, arrays, FALSE, FALSE)
  /\ UNCHANGED <<ENDPOINTS, arrays, listeners, msgs, offs, resolved,
                 enc_force, con_map, cons, connects>>

\* ------------------------------------------- DirectIPC: messages of a session

\* the kinds of listener the script registers on a Connection or a manager
SessionKinds ==
  {"con_on", "con_once", "con_handle", "con_invoke",
   "mgr_on", "mgr_once", "mgr_handle", "mgr_invoke"}

\* the string the scripts send: "Hi"
DirectValues == {<<72, 105>>}

\* serializer.serialize(value), then MAYBE_ENCRYPT: the `bytes` of a message
Payload(value, enc) == MaybeCrypt(StringSerialize(value), enc)

\* MAYBE_DECRYPT, then deserializer.deserialize
Unpayload(bytes, enc) == StringDeserialize(MaybeCrypt(bytes, enc))

\* the jobs of ConnectionManager.send
SendJobs == {j \in DOMAIN jobs : j[1] = 0}

\* calls of send and invoke the scripts have made
NumDirectSends ==
  Cardinality(SendJobs)
    + Cardinality({g \in DOMAIN msgs : msgs[g].top /\ Len(msgs[g].endpoint) = 5})

\* NET.listen of a method of Connection c
ConListen(c, kind, suffix, channel, fn) ==
  /\ c \in Held
  /\ NumKind(SessionKinds) < MaxDirectListeners
  /\ RegisterDirect(kind, ConnectionEndpoint(cons[c].from, channel, suffix),
                    cons[c].from, c, channel, fn)

\* Connection.on(channel, String, listener)
ConOn(c, channel) ==
  /\ ConListen(c, "con_on", "send", channel, "none")
  /\ cons' = [cons EXCEPT ![c].terminators = Append(@, Len(listeners) + 1)]
  /\ UNCHANGED <<msgs, jobs, enc_force, enc_map, con_map, connects>>

\* Connection.once(channel, String, listener)
ConOnce(c, channel) ==
  /\ ConListen(c, "con_once", "send", channel, "none")
  /\ cons' = [cons EXCEPT ![c].terminators = Append(@, Len(listeners) + 1)]
  /\ UNCHANGED <<msgs, jobs, enc_force, enc_map, con_map, connects>>

\* Connection.handle(channel, String, String, listener)
ConHandle(c, channel, fn) ==
  /\ ConListen(c, "con_handle", "invoke", channel, fn)
  /\ cons' = [cons EXCEPT ![c].terminators = Append(@, Len(listeners) + 1)]
  /\ UNCHANGED <<msgs, jobs, enc_force, enc_map, con_map, connects>>

\* Connection.invoke(channel, String, value, String): the job that emits the
\* request is started, then the listener for the reply is registered; its
\* closure is kept by the listener alone
ConInvoke(c, channel, value) ==
  /\ NumDirectSends < MaxDirectSends
  /\ ConListen(c, "con_invoke", "handle", channel, "none")
  /\ msgs' = Append(msgs, DirectMsg(ManagerEndpoint(cons[c].to, channel, "invoke"), "con",
                 [from |-> cons[c].from, bytes |-> Payload(value, cons[c].enc)], TRUE))
  /\ UNCHANGED <<jobs, enc_force, enc_map, con_map, cons, connects>>

\* Connection.send(channel, String, value)
ConSend(c, channel, value) ==
  /\ c \in Held
  /\ NumDirectSends < MaxDirectSends
  /\ msgs' = Append(msgs, DirectMsg(ManagerEndpoint(cons[c].to, channel, "send"), "con",
                 [from |-> cons[c].from, bytes |-> Payload(value, cons[c].enc)], TRUE))
  /\ UNCHANGED <<ENDPOINTS, arrays, listeners, buffer, jobs, seen, late, fin, calls, offs,
                 resolved, enc_force, enc_map, con_map, cons, connects>>

\* NET.listen of a method of the manager id
MgrListen(id, kind, suffix, channel, fn) ==
  /\ NumKind(SessionKinds) < MaxDirectListeners
  /\ RegisterDirect(kind, ManagerEndpoint(id, channel, suffix), id, 0, channel, fn)
  /\ UNCHANGED <<msgs, jobs, enc_force, enc_map, con_map, cons, connects>>

\* ConnectionManager.on(channel, String, listener)
MgrOn(id, channel) == MgrListen(id, "mgr_on", "send", channel, "none")

\* ConnectionManager.once(channel, String, listener)
MgrOnce(id, channel) == MgrListen(id, "mgr_once", "send", channel, "none")

\* ConnectionManager.handle(channel, String, String, listener)
MgrHandle(id, channel, fn) == MgrListen(id, "mgr_handle", "invoke", channel, fn)

\* ConnectionManager.send(channel, String, value): a job that iterates _enc_map
MgrSend(id, channel, value) ==
  /\ NumDirectSends < MaxDirectSends
  /\ jobs' = (<<0, Cardinality(SendJobs) + 1>> :>
                [pc |-> "send", mgr |-> id, channel |-> channel, value |-> value,
                 at |-> 0, entry |-> <<>>]) @@ jobs
  /\ UNCHANGED <<ENDPOINTS, arrays, listeners, buffer, msgs, seen, late, fin, calls, offs,
                 resolved, enc_force, enc_map, con_map, cons, connects>>

\* a slice of the job of ConnectionManager.send: system.sendScriptEvent of the
\* message for the entry the iterator gave last, then the iterator's next
\* step over the live entries of _enc_map
MgrSendStep(j) ==
  /\ jobs[j].pc = "send"
  /\ LET job == jobs[j]
         map == enc_map[job.mgr]
         rest == {i \in DOMAIN map : i > job.at /\ map[i].live}
         next == IF rest = {} THEN [job EXCEPT !.pc = "done", !.entry = <<>>]
                 ELSE [job EXCEPT !.at = Min(rest), !.entry = <<map[Min(rest)]>>]
         msg == [DirectMsg(ConnectionEndpoint(job.entry[1].key, job.channel, "send"), "con",
                           [from |-> job.mgr,
                            bytes |-> Payload(job.value, job.entry[1].enc)], FALSE)
                   EXCEPT !.sent = 1]
     IN IF job.entry = <<>>
          THEN /\ jobs' = [jobs EXCEPT ![j] = next]
               /\ msgs' = msgs
          ELSE /\ jobs' = (<<Len(msgs) + 1, 1>> :> NewJob) @@ [jobs EXCEPT ![j] = next]
               /\ msgs' = Append(msgs, msg)
  /\ UNCHANGED <<ENDPOINTS, arrays, listeners, buffer, seen, late, fin, calls, offs,
                 resolved, enc_force, enc_map, con_map, cons, connects>>

\* the loop of ConnectionManager.invoke over the entries of _enc_map: for
\* each, the job that emits the request is started and a listener for the
\* reply is registered, which holds the entry's key and secret
RECURSIVE InvokeAll(_, _, _, _, _)
InvokeAll(entries, id, channel, value, acc) ==
  IF entries = <<>> THEN acc
  ELSE LET e == Head(entries)
           endpoint == ManagerEndpoint(id, channel, "handle")
           r == CreateListener(acc.E, acc.A, endpoint, Len(acc.L) + 1)
           listener == [DirectListener("mgr_invoke", endpoint, id, 0, channel, "none", r.arr)
                          EXCEPT !.peer = e.key, !.enc = e.enc]
           msg == DirectMsg(ConnectionEndpoint(e.key, channel, "invoke"), "con",
                            [from |-> id, bytes |-> Payload(value, e.enc)], TRUE)
       IN InvokeAll(Tail(entries), id, channel, value,
                    [E |-> r.E, A |-> r.A, L |-> Append(acc.L, listener),
                     M |-> Append(acc.M, msg)])

\* ConnectionManager.invoke(channel, String, value, String)
MgrInvoke(id, channel, value) ==
  LET entries == SelectSeq(enc_map[id], LAMBDA e : e.live)
      n == Len(entries)
      r == InvokeAll(entries, id, channel, value,
                     [E |-> ENDPOINTS, A |-> arrays, L |-> listeners, M |-> msgs])
  IN /\ NumDirectSends < MaxDirectSends
     /\ NumKind(SessionKinds) + n <= MaxDirectListeners
     /\ n > 0
     /\ ENDPOINTS' = r.E
     /\ arrays' = r.A
     /\ listeners' = r.L
     /\ msgs' = r.M
     /\ buffer' = buffer \o [i \in 1 .. n |-> EmptyMap]
     /\ seen' = seen \o [i \in 1 .. n |-> {}]
     /\ late' = late \o [i \in 1 .. n |-> {}]
     /\ fin' = fin \o [i \in 1 .. n |-> {}]
     /\ calls' = calls \o [i \in 1 .. n |-> {}]
     /\ offs' = offs \o [i \in 1 .. n |-> 0]
     /\ resolved' = resolved \o [i \in 1 .. n |-> <<>>]
     /\ UNCHANGED <<jobs, enc_force, enc_map, con_map, cons, connects>>

\* the test of the listeners of a Connection: `data.from === $._to`
FromPeer(from, peer) == from = peer

\* the listener of Connection.on / once / invoke, from its decoded message on:
\* for a message of the peer the bytes are decrypted and decoded and the
\* script's listener is called (the promise resolved); once and invoke then
\* call their own closure
ConCall(j) ==
  /\ jobs[j].pc = "call"
  /\ listeners[jobs[j].cur].kind \in {"con_on", "con_once", "con_invoke"}
  /\ jobs[j].dec.ok
  /\ LET l == jobs[j].cur
         kind == listeners[l].kind
         c == listeners[l].ref
         data == jobs[j].dec.value
         v == Unpayload(data.bytes, cons[c].enc)
         off == kind # "con_on"
         reg == IF off THEN Deregister(ENDPOINTS, arrays, l) ELSE [E |-> ENDPOINTS, A |-> arrays]
     IN IF FromPeer(data.from, cons[c].to) /\ v.ok
          THEN /\ calls' = [calls EXCEPT ![l] = Called(@, j[1], v.value)]
               /\ resolved' = IF kind = "con_invoke" /\ resolved[l] = <<>>
                                THEN [resolved EXCEPT ![l] = <<v.value>>] ELSE resolved
               /\ ENDPOINTS' = reg.E
               /\ arrays' = reg.A
               /\ offs' = IF off THEN [offs EXCEPT ![l] = @ + 1] ELSE offs
               /\ Return(j, reg.A, off, FALSE)
          ELSE /\ UNCHANGED <<calls, resolved, ENDPOINTS, arrays, offs>>
               /\ Return(j, arrays, FALSE, FromPeer(data.from, cons[c].to))
  /\ UNCHANGED <<listeners, msgs, enc_force, enc_map, con_map, cons, connects>>

\* the listener of Connection.handle: for a request of the peer the script's
\* handler is called and NET.emit of its result starts inside this job
ConHandleCall(j) ==
  /\ jobs[j].pc = "call"
  /\ listeners[jobs[j].cur].kind = "con_handle"
  /\ jobs[j].dec.ok
  /\ LET l == jobs[j].cur
         c == listeners[l].ref
         data == jobs[j].dec.value
         v == Unpayload(data.bytes, cons[c].enc)
     IN IF FromPeer(data.from, cons[c].to) /\ v.ok
          THEN /\ calls' = [calls EXCEPT ![l] = Called(@, j[1], v.value)]
               /\ msgs' = Append(msgs,
                    DirectMsg(ManagerEndpoint(cons[c].to, listeners[l].channel, "handle"), "con",
                              [from |-> cons[c].from,
                               bytes |-> Payload(HandlerResult(listeners[l].fn, v.value),
                                                 cons[c].enc)], FALSE))
               /\ jobs' = [jobs EXCEPT ![j] = [@ EXCEPT !.pc = "reply", !.reply = Len(msgs) + 1]]
               /\ UNCHANGED <<buffer, seen, late, fin>>
          ELSE /\ UNCHANGED <<calls, msgs>>
               /\ Return(j, arrays, FALSE, FromPeer(data.from, cons[c].to))
  /\ UNCHANGED <<ENDPOINTS, arrays, listeners, offs, resolved,
                 enc_force, enc_map, con_map, cons, connects>>

\* the listener of ConnectionManager.on / once / handle, from its decoded
\* message to the first yield: `$._enc_map.get(data.from)`; without an entry
\* the callback returns
MgrCheck(j) ==
  /\ jobs[j].pc = "call"
  /\ listeners[jobs[j].cur].kind \in {"mgr_on", "mgr_once", "mgr_handle"}
  /\ jobs[j].dec.ok
  /\ LET l == jobs[j].cur
         map == enc_map[listeners[l].mgr]
         data == jobs[j].dec.value
     IN IF EncHas(map, data.from)
          THEN /\ jobs' = [jobs EXCEPT ![j] =
                    [@ EXCEPT !.pc = "deliver",
                              !.dec = [ok |-> TRUE,
                                       value |-> [from |-> data.from, bytes |-> data.bytes,
                                                  enc |-> EncGet(map, data.from)]]]]
               /\ UNCHANGED <<buffer, seen, late, fin>>
          ELSE Return(j, arrays, FALSE, FALSE)
  /\ UNCHANGED <<ENDPOINTS, arrays, listeners, msgs, calls, offs, resolved,
                 enc_force, enc_map, con_map, cons, connects>>

\* the listener of ConnectionManager.on / once after the decryption and the
\* decoding: the script's listener is called; once then calls its own closure
MgrDeliver(j) ==
  /\ jobs[j].pc = "deliver"
  /\ listeners[jobs[j].cur].kind \in {"mgr_on", "mgr_once"}
  /\ LET l == jobs[j].cur
         data == jobs[j].dec.value
         v == Unpayload(data.bytes, data.enc)
         off == listeners[l].kind = "mgr_once"
         reg == IF off THEN Deregister(ENDPOINTS, arrays, l) ELSE [E |-> ENDPOINTS, A |-> arrays]
     IN IF v.ok
          THEN /\ calls' = [calls EXCEPT ![l] = Called(@, j[1], v.value)]
               /\ ENDPOINTS' = reg.E
               /\ arrays' = reg.A
               /\ offs' = IF off THEN [offs EXCEPT ![l] = @ + 1] ELSE offs
               /\ Return(j, reg.A, off, FALSE)
          ELSE /\ UNCHANGED <<calls, ENDPOINTS, arrays, offs>>
               /\ Return(j, arrays, FALSE, TRUE)
  /\ UNCHANGED <<listeners, msgs, resolved, enc_force, enc_map, con_map, cons, connects>>

\* the listener of ConnectionManager.handle after the decryption and the
\* decoding: the script's handler is called and NET.emit of its result starts
MgrHandleDeliver(j) ==
  /\ jobs[j].pc = "deliver"
  /\ listeners[jobs[j].cur].kind = "mgr_handle"
  /\ LET l == jobs[j].cur
         data == jobs[j].dec.value
         v == Unpayload(data.bytes, data.enc)
     IN IF v.ok
          THEN /\ calls' = [calls EXCEPT ![l] = Called(@, j[1], v.value)]
               /\ msgs' = Append(msgs,
                    DirectMsg(ConnectionEndpoint(data.from, listeners[l].channel, "handle"), "con",
                              [from |-> listeners[l].mgr,
                               bytes |-> Payload(HandlerResult(listeners[l].fn, v.value),
                                                 data.enc)], FALSE))
               /\ jobs' = [jobs EXCEPT ![j] = [@ EXCEPT !.pc = "reply", !.reply = Len(msgs) + 1]]
               /\ UNCHANGED <<buffer, seen, late, fin>>
          ELSE /\ UNCHANGED <<calls, msgs>>
               /\ Return(j, arrays, FALSE, TRUE)
  /\ UNCHANGED <<ENDPOINTS, arrays, listeners, offs, resolved,
                 enc_force, enc_map, con_map, cons, connects>>

\* the listener of ConnectionManager.invoke: for the reply of the entry's
\* peer the promise is resolved and the listener calls its own closure
MgrInvokeCall(j) ==
  /\ jobs[j].pc = "call"
  /\ listeners[jobs[j].cur].kind = "mgr_invoke"
  /\ jobs[j].dec.ok
  /\ LET l == jobs[j].cur
         data == jobs[j].dec.value
         v == Unpayload(data.bytes, listeners[l].enc)
         reg == Deregister(ENDPOINTS, arrays, l)
     IN IF FromPeer(data.from, listeners[l].peer) /\ v.ok
          THEN /\ calls' = [calls EXCEPT ![l] = Called(@, j[1], v.value)]
               /\ resolved' = IF resolved[l] = <<>> THEN [resolved EXCEPT ![l] = <<v.value>>]
                              ELSE resolved
               /\ ENDPOINTS' = reg.E
               /\ arrays' = reg.A
               /\ offs' = [offs EXCEPT ![l] = @ + 1]
               /\ Return(j, reg.A, TRUE, FALSE)
          ELSE /\ UNCHANGED <<calls, resolved, ENDPOINTS, arrays, offs>>
               /\ Return(j, arrays, FALSE, FromPeer(data.from, listeners[l].peer))
  /\ UNCHANGED <<listeners, msgs, enc_force, enc_map, con_map, cons, connects>>

\* ------------------------------------------------------------ specifications

\* the jobs the scheduler may advance
Step ==
  \/ \E g \in DOMAIN msgs : EmitStep(g) /\ UNCHANGED <<direct, pure>>
  \/ \E j \in DOMAIN jobs : Lookup(j) /\ UNCHANGED <<direct, pure>>
  \/ \E j \in DOMAIN jobs : Loop(j) /\ UNCHANGED <<direct, pure>>
  \/ \E j \in DOMAIN jobs, t \in BOOLEAN : Call(j, t) /\ UNCHANGED <<direct, pure>>

\* publish / subscribe: a script that calls on, once, send and the closures
Next ==
  \/ \E c \in Channels : On(c) /\ UNCHANGED <<direct, pure>>
  \/ \E c \in Channels : Once(c) /\ UNCHANGED <<direct, pure>>
  \/ \E c \in Channels, v \in Values : Send(c, v) /\ UNCHANGED <<direct, pure>>
  \/ \E l \in DOMAIN listeners : Off(l) /\ UNCHANGED <<direct, pure>>
  \/ Step

Spec == Init /\ [][Next]_vars

\* request / reply: a script that calls handle and invoke
NextRPC ==
  \/ \E c \in Channels, fn \in HandlerFns : Handle(c, fn) /\ UNCHANGED <<direct, pure>>
  \/ \E c \in Channels, x \in Args : Invoke(c, x) /\ UNCHANGED <<direct, pure>>
  \/ \E j \in DOMAIN jobs : CallHandle(j) /\ UNCHANGED <<direct, pure>>
  \/ \E j \in DOMAIN jobs : Reply(j) /\ UNCHANGED <<direct, pure>>
  \/ Step

SpecRPC == Init /\ [][NextRPC]_vars

\* the bytes the buffers hold: as low and high byte of a character they give
\* escapes (high byte 0) and literal characters of UTF-8 size 2 and 3
ByteValues == {0, 1, 8, 65, 255}

RECURSIVE SeqsUpTo(_, _)
SeqsUpTo(S, n) ==
  IF n = 0 THEN {<<>>}
  ELSE LET shorter == SeqsUpTo(S, n - 1)
       IN shorter \cup {Append(q, x) : q \in {r \in shorter : Len(r) = n - 1}, x \in S}

\* NET.serialize and NET.deserialize applied to a buffer: the buffer holds any
\* bytes, max_size is any positive size
InitNet ==
  /\ NetInit
  /\ DirectIdle
  /\ input \in [bytes : SeqsUpTo(ByteValues, MaxBytes), max_size : 1 .. MaxSize]
  /\ output = <<>>
  /\ protoBuffer = <<>>

\* yield* NET.deserialize(yield* NET.serialize(buffer, max_size))
SerializeDeserialize ==
  /\ output = <<>>
  /\ output' = <<NetDeserialize(NetSerialize(input.bytes, input.max_size))>>
  /\ UNCHANGED <<net, direct, input, protoBuffer>>

NextNet == SerializeDeserialize

SpecNet == InitNet /\ [][NextNet]_vars

\* the primes, bases and secrets of the key agreement: the example of the
\* documentation (23, 5, 6, 15), the defaults CRYPTO.PRIME and CRYPTO.MOD, and
\* a prime above 2^27
DHPrimes == {23, 19893121, 134217757}

DHBases == {2, 5, 341}

DHSecrets == {1, 2, 6, 15, 28}

InitDH ==
  /\ NetInit
  /\ DirectIdle
  /\ input \in [prime : DHPrimes, mod : DHBases, a : DHSecrets, b : DHSecrets]
  /\ output = <<>>
  /\ protoBuffer = <<>>

\* both sides of the handshake: each makes its public value from its secret
\* and its shared secret from the other side's public value
KeyAgreement ==
  /\ output = <<>>
  /\ output' = <<[initiator |-> make_shared(input.a, make_public(input.b, input.mod, input.prime), input.prime),
                  responder |-> make_shared(input.b, make_public(input.a, input.mod, input.prime), input.prime)]>>
  /\ UNCHANGED <<net, direct, input, protoBuffer>>

NextDH == KeyAgreement

SpecDH == InitDH /\ [][NextDH]_vars

\* the handshake: the initiator's script calls connect and terminate, the
\* timers fire, the jobs run
NextHandshake ==
  \/ \E to \in Peers, e \in BOOLEAN, s \in 1 .. (DirectMod - 1) :
       Connect(to, e, s) /\ UNCHANGED pure
  \/ \E k \in DOMAIN connects : Timeout(k) /\ UNCHANGED pure
  \/ \E c \in DOMAIN cons, n \in BOOLEAN : ConTerminate(c, n) /\ UNCHANGED pure
  \/ \E g \in DOMAIN msgs : EmitStep(g) /\ UNCHANGED <<direct, pure>>
  \/ \E j \in DOMAIN jobs : Lookup(j) /\ UNCHANGED <<direct, pure>>
  \/ \E j \in DOMAIN jobs : Loop(j) /\ UNCHANGED <<direct, pure>>
  \/ \E j \in DOMAIN jobs, s \in 1 .. (DirectMod - 1) : SyncCall(j, s) /\ UNCHANGED pure
  \/ \E j \in DOMAIN jobs : Reply(j) /\ UNCHANGED <<direct, pure>>
  \/ \E j \in DOMAIN jobs : AckCall(j) /\ UNCHANGED pure
  \/ \E j \in DOMAIN jobs : TermCall(j) /\ UNCHANGED pure

SpecHandshake == InitDirect /\ [][NextHandshake]_vars

\* no message is on its way and no job of a send is left: the moments at
\* which the scripts of a session make their calls
Quiet ==
  /\ \A g \in DOMAIN msgs :
       /\ msgs[g].sent = Len(msgs[g].chunks)
       /\ \A p \in 1 .. Len(msgs[g].chunks) : jobs[<<g, p>>].pc = "done"
  /\ \A j \in SendJobs : jobs[j].pc = "done"

\* the manager whose script registers listeners and sends in a session
Responder == "B"

\* the listeners of a session that a call of on, once or handle registers
ListenKinds == {"con_on", "con_once", "con_handle", "mgr_on", "mgr_once", "mgr_handle"}

\* calls of terminate the script has made on the Connections 1 .. n
RECURSIVE SumTerminates(_)
SumTerminates(n) == IF n = 0 THEN 0 ELSE cons[n].terminates + SumTerminates(n - 1)

\* the calls the scripts have made in the session
ScriptCalls ==
  Len(connects) + SumTerminates(Len(cons)) + NumKind(ListenKinds) + NumDirectSends

\* a turn of a script: a quiet moment, with calls left
Turn == Quiet /\ ScriptCalls < MaxScriptCalls

\* every manager is constructed without force_encryption
InitSession == InitDirect /\ \A id \in Ids : ~enc_force[id]

\* a session: handshakes whose timer does not run out, the calls of the
\* scripts on the initiator's Connections and on the responder's manager, made
\* at quiet moments except for terminate, and the slices of the jobs
NextDirect ==
  \/ \E to \in Peers, e \in BOOLEAN, s \in 1 .. (DirectMod - 1) :
       Turn /\ Connect(to, e, s) /\ UNCHANGED pure
  \/ \E c \in DOMAIN cons, n \in BOOLEAN :
       ScriptCalls < MaxScriptCalls /\ ConTerminate(c, n) /\ UNCHANGED pure
  \/ \E c \in DOMAIN cons, ch \in Channels : Turn /\ ConOn(c, ch) /\ UNCHANGED pure
  \/ \E c \in DOMAIN cons, ch \in Channels : Turn /\ ConOnce(c, ch) /\ UNCHANGED pure
  \/ \E c \in DOMAIN cons, ch \in Channels :
       Turn /\ ConHandle(c, ch, "switch") /\ UNCHANGED pure
  \/ \E c \in DOMAIN cons, ch \in Channels, v \in DirectValues :
       Turn /\ ConInvoke(c, ch, v) /\ UNCHANGED pure
  \/ \E c \in DOMAIN cons, ch \in Channels, v \in DirectValues :
       Turn /\ ConSend(c, ch, v) /\ UNCHANGED pure
  \/ \E ch \in Channels : Turn /\ MgrOn(Responder, ch) /\ UNCHANGED pure
  \/ \E ch \in Channels : Turn /\ MgrOnce(Responder, ch) /\ UNCHANGED pure
  \/ \E ch \in Channels : Turn /\ MgrHandle(Responder, ch, "switch") /\ UNCHANGED pure
  \/ \E ch \in Channels, v \in DirectValues :
       Turn /\ MgrSend(Responder, ch, v) /\ UNCHANGED pure
  \/ \E ch \in Channels, v \in DirectValues :
       Turn /\ MgrInvoke(Responder, ch, v) /\ UNCHANGED pure
  \/ \E g \in DOMAIN msgs : EmitStep(g) /\ UNCHANGED <<direct, pure>>
  \/ \E j \in DOMAIN jobs : Lookup(j) /\ UNCHANGED <<direct, pure>>
  \/ \E j \in DOMAIN jobs : Loop(j) /\ UNCHANGED <<direct, pure>>
  \/ \E j \in DOMAIN jobs, s \in 1 .. (DirectMod - 1) : SyncCall(j, s) /\ UNCHANGED pure
  \/ \E j \in DOMAIN jobs : Reply(j) /\ UNCHANGED <<direct, pure>>
  \/ \E j \in DOMAIN jobs : AckCall(j) /\ UNCHANGED pure
  \/ \E j \in DOMAIN jobs : TermCall(j) /\ UNCHANGED pure
  \/ \E j \in DOMAIN jobs : MgrSendStep(j) /\ UNCHANGED pure
  \/ \E j \in DOMAIN jobs : ConCall(j) /\ UNCHANGED pure
  \/ \E j \in DOMAIN jobs : ConHandleCall(j) /\ UNCHANGED pure
  \/ \E j \in DOMAIN jobs : MgrCheck(j) /\ UNCHANGED pure
  \/ \E j \in DOMAIN jobs : MgrDeliver(j) /\ UNCHANGED pure
  \/ \E j \in DOMAIN jobs : MgrHandleDeliver(j) /\ UNCHANGED pure
  \/ \E j \in DOMAIN jobs : MgrInvokeCall(j) /\ UNCHANGED pure

SpecDirect == InitSession /\ [][NextDirect]_vars

\* the keys of the cipher: "1", "FF", "1234" (longer than the bytes) and a key
\* with a char code above 255
CryptKeys == {<<49>>, <<70, 70>>, <<49, 50, 51, 52>>, <<937, 50>>}

\* CRYPTO.encrypt and CRYPTO.decrypt applied to any bytes under any key
InitCrypt ==
  /\ NetInit
  /\ DirectIdle
  /\ input \in [bytes : SeqsUpTo(ByteValues, MaxBytes), key : CryptKeys]
  /\ output = <<>>
  /\ protoBuffer = <<>>

\* yield* CRYPTO.decrypt(yield* CRYPTO.encrypt(bytes, key), key), and decrypt
\* applied to the bytes themselves
EncryptDecrypt ==
  /\ output = <<>>
  /\ output' = <<[encrypted |-> encrypt(input.bytes, input.key),
                  decrypted |-> decrypt(encrypt(input.bytes, input.key), input.key),
                  other |-> decrypt(input.bytes, input.key)]>>
  /\ UNCHANGED <<net, direct, input, protoBuffer>>

SpecCrypt == InitCrypt /\ [][EncryptDecrypt]_vars

\* ---- PROTO.Buffer under a script's writes and reads

\* the bytes a script writes: a final byte and a continuation byte of a varint
BufferBytes == {0, 172}

\* new PROTO.Buffer(size); `input` holds the bytes written or reserved and not
\* yet consumed, `output` the result of the call just made when it was a read,
\* with the front and length it met
InitBuffer ==
  /\ NetInit
  /\ DirectIdle
  /\ protoBuffer \in {NewBuffer(size) : size \in 0 .. MaxBufferSize}
  /\ input = <<>>
  /\ output = <<>>

Fits(b) == Len(b.buffer) <= MaxCapacity

Zeros(n) == [i \in 1 .. n |-> 0]

\* stream.write(byte)
BufWrite ==
  \E byte \in BufferBytes :
    /\ Fits(WriteByte(protoBuffer, byte))
    /\ protoBuffer' = WriteByte(protoBuffer, byte)
    /\ input' = Append(input, byte)
    /\ output' = <<>>
    /\ UNCHANGED <<net, direct>>

\* stream.write(bytes)
BufWriteBytes ==
  \E bytes \in SeqsUpTo(BufferBytes, MaxAmount) :
    /\ Fits(WriteBytes(protoBuffer, bytes))
    /\ protoBuffer' = WriteBytes(protoBuffer, bytes)
    /\ input' = input \o bytes
    /\ output' = <<>>
    /\ UNCHANGED <<net, direct>>

\* stream.reserve(amount)
BufReserve ==
  \E amount \in 0 .. MaxAmount :
    /\ Fits(reserve(protoBuffer, amount).stream)
    /\ protoBuffer' = reserve(protoBuffer, amount).stream
    /\ input' = input \o Zeros(amount)
    /\ output' = <<>>
    /\ UNCHANGED <<net, direct>>

\* what is left of `input` once n bytes are taken off its front
Drop(n) == SubSeq(input, n + 1, Len(input))

\* the n oldest bytes of `input`, or all of them
Oldest(n) == [i \in 1 .. (IF n < Len(input) THEN n ELSE Len(input)) |-> input[i]]

\* stream.read()
BufRead ==
  LET r == ReadByte(protoBuffer)
  IN /\ protoBuffer' = r.stream
     /\ output' = <<[op |-> "read", amount |-> 1, front |-> protoBuffer.offset, held |-> protoBuffer.length, ok |-> r.ok,
                     value |-> IF r.ok THEN <<r.value>> ELSE <<>>,
                     expected |-> Oldest(1)]>>
     /\ input' = IF r.ok THEN Drop(1) ELSE input
     /\ UNCHANGED <<net, direct>>

\* stream.read(amount)
BufReadBytes ==
  \E amount \in 0 .. MaxAmount + 1 :
    LET r == ReadBytes(protoBuffer, amount)
    IN /\ protoBuffer' = r.stream
       /\ output' = <<[op |-> "read", amount |-> amount, front |-> protoBuffer.offset, held |-> protoBuffer.length, ok |-> r.ok,
                       value |-> r.value, expected |-> Oldest(amount)]>>
       /\ input' = IF r.ok THEN Drop(amount) ELSE input
       /\ UNCHANGED <<net, direct>>

\* stream.consume(amount)
BufConsume ==
  \E amount \in 0 .. MaxAmount + 1 :
    LET r == consume(protoBuffer, amount)
    IN /\ protoBuffer' = r.stream
       /\ output' = <<[op |-> "consume", amount |-> amount, front |-> protoBuffer.offset, held |-> protoBuffer.length, ok |-> r.ok,
                       value |-> <<>>, expected |-> <<>>]>>
       /\ input' = IF r.ok THEN Drop(amount) ELSE input
       /\ UNCHANGED <<net, direct>>

\* yield* PROTO.UVarInt32.deserialize(stream)
BufDeserialize ==
  LET r == UVarInt32Take(protoBuffer, 0, 0)
  IN /\ protoBuffer' = r.stream
     /\ output' = <<[op |-> "deserialize", amount |-> protoBuffer.length - r.stream.length,
                     front |-> protoBuffer.offset, held |-> protoBuffer.length, ok |-> r.ok,
                     value |-> IF r.ok THEN <<r.value>> ELSE <<>>,
                     expected |-> input]>>
     /\ input' = Drop(protoBuffer.length - r.stream.length)
     /\ UNCHANGED <<net, direct>>

NextBuffer ==
  \/ BufWrite
  \/ BufWriteBytes
  \/ BufReserve
  \/ BufRead
  \/ BufReadBytes
  \/ BufConsume
  \/ BufDeserialize

SpecBuffer == InitBuffer /\ [][NextBuffer]_vars

\* ---- PROTO.UVarInt32 and PROTO.VarInt32 applied to 32-bit values

\* -2^31
MinInt32 == (-(2 ^ 30)) - 2 ^ 30

\* a ^ b on two 32-bit integers
Xor32(a, b) ==
  LET low == Xor(a % 65536, b % 65536, 16)
      high == Xor((a \div 65536) % 65536, (b \div 65536) % 65536, 16)
  IN (IF high >= 32768 THEN high - 65536 ELSE high) * 65536 + low

\* value << 1 in 32 bits
Shl1(value) ==
  IF value >= 2 ^ 30 THEN ((value - 2 ^ 30) * 2) + MinInt32
  ELSE IF value < -(2 ^ 30) THEN ((value + 2 ^ 30) + 2 ^ 30) * 2
  ELSE value * 2

\* value >> 31
Sar31(value) == IF value < 0 THEN -1 ELSE 0

\* a shift that keeps the sign bit
Sar1(zigzag) == zigzag \div 2

\* zigzag >>> 1, on the bit pattern of the unsigned value
UShr1(zigzag) == IF zigzag < 0 THEN ((zigzag \div 2) + 2 ^ 30) + 2 ^ 30 ELSE zigzag \div 2

\* PROTO.VarInt32.serialize
VarInt32Serialize(value) == UVarInt32Serialize(Xor32(Shl1(value), Sar31(value)))

\* PROTO.VarInt32.deserialize
VarInt32Deserialize(stream) ==
  LET zigzag == UVarInt32Deserialize(stream)
  IN [ok |-> zigzag.ok,
      value |-> IF zigzag.ok THEN Xor32(UShr1(zigzag.value), -(zigzag.value % 2)) ELSE 0,
      rest |-> zigzag.rest]

\* the 32-bit values the codecs are applied to: 300, and around every power
\* of two the values up to 2^31 - 1 and down to -2^31 (as unsigned values, by
\* their bit patterns, up to 2^32 - 1)
VarIntValues ==
  LET P == {2 ^ k : k \in 0 .. MaxShift} \cup {2 ^ 30}
  IN {0, 300, -300, MinInt32, MinInt32 + 1, (2 ^ 30 - 1) + 2 ^ 30}
       \cup P \cup {p - 1 : p \in P} \cup {p + 1 : p \in P}
       \cup {-p : p \in P} \cup {(-p) - 1 : p \in P} \cup {1 - p : p \in P}

\* the byte streams PROTO.UVarInt32.deserialize is applied to
VarIntStreams ==
  {<<172, 2>>, <<0>>, <<128, 128, 128, 128, 128, 128>>, <<255, 255, 255, 255, 255, 1>>,
   <<255, 255, 255, 255, 15>>, <<172, 2, 172, 2>>}

InitVarInt ==
  /\ NetInit
  /\ DirectIdle
  /\ input \in [value : VarIntValues, stream : VarIntStreams]
  /\ output = <<>>
  /\ protoBuffer = <<>>

\* both codecs' serialize, deserialize of what each wrote, and
\* PROTO.UVarInt32.deserialize of the given stream
VarIntCodecs ==
  /\ output = <<>>
  /\ output' = <<[encoded |-> UVarInt32Serialize(input.value),
                  decoded |-> UVarInt32Deserialize(UVarInt32Serialize(input.value)),
                  zigzag |-> VarInt32Serialize(input.value),
                  unzigzag |-> VarInt32Deserialize(VarInt32Serialize(input.value)),
                  taken |-> UVarInt32Deserialize(input.stream)]>>
  /\ UNCHANGED <<net, direct, input, protoBuffer>>

SpecVarInt == InitVarInt /\ [][VarIntCodecs]_vars

\* ---- composite codecs writing to and reading from one PROTO.Buffer

UVarInt32 == [t |-> "UVarInt32"]

String == [t |-> "String"]

Undefined == [def |-> FALSE]

Defined(v) == [def |-> TRUE, value |-> v]

\* the codecs a script builds and values it serializes with each: the empty
\* and a non-empty one.  `input` lists the chosen ones by their place here.
CodecItems ==
  << [codec |-> [t |-> "Array", of |-> <<String>>], value |-> <<>>],
    [codec |-> [t |-> "Array", of |-> <<String>>], value |-> << <<72, 105>>, <<>> >>],
    [codec |-> [t |-> "Tuple", of |-> <<[t |-> "Boolean"], UVarInt32>>], value |-> <<TRUE, 300>>],
    [codec |-> [t |-> "Object", of |-> <<String, [t |-> "Optional", of |-> <<UVarInt32>>]>>],
     value |-> << <<>>, Undefined >>],
    [codec |-> [t |-> "Object", of |-> <<String, [t |-> "Optional", of |-> <<UVarInt32>>]>>],
     value |-> << <<65>>, Defined(0) >>],
    [codec |-> [t |-> "Optional", of |-> <<String>>], value |-> Undefined],
    [codec |-> [t |-> "Optional", of |-> <<String>>], value |-> Defined(<<>>)],
    [codec |-> [t |-> "Map", of |-> <<String, UVarInt32>>], value |-> <<>>],
    [codec |-> [t |-> "Map", of |-> <<String, UVarInt32>>],
     value |-> << << <<>>, 0 >>, << <<65>>, 300 >> >>],
    [codec |-> [t |-> "Set", of |-> <<UVarInt32>>], value |-> <<>>],
    [codec |-> [t |-> "Set", of |-> <<UVarInt32>>], value |-> <<128, 0>>],
    [codec |-> [t |-> "Array", of |-> <<[t |-> "UInt8"]>>], value |-> <<>>],
    [codec |-> [t |-> "Array", of |-> <<[t |-> "UInt8"]>>], value |-> <<7, 255>>] >>

\* new PROTO.Buffer(size) and the values to serialize one after another;
\* `output` holds how many were serialized, whether a call threw, the values
\* deserialized, and for each the bytes its serialize appended and its
\* deserialize consumed
InitCodec ==
  /\ NetInit
  /\ DirectIdle
  /\ input \in SeqsUpTo(DOMAIN CodecItems, MaxValues) \ {<<>>}
  /\ protoBuffer \in {NewBuffer(SmallBuffer), NewBuffer(LargeBuffer)}
  /\ output = [serialized |-> 0, threw |-> FALSE, values |-> <<>>,
               appended |-> <<>>, consumed |-> <<>>]

\* yield* codec.serialize(value, stream) of the next value
CodecSerialize ==
  /\ ~output.threw
  /\ output.serialized < Len(input)
  /\ LET item == CodecItems[input[output.serialized + 1]]
         r == Serialize(item.codec, item.value, protoBuffer)
     IN /\ protoBuffer' = r.stream
        /\ output' = [output EXCEPT !.serialized = @ + 1,
                                    !.threw = ~r.ok,
                                    !.appended = Append(@, r.stream.length - protoBuffer.length)]
  /\ UNCHANGED <<net, direct, input>>

\* yield* codec.deserialize(stream) of the next value, once all are serialized
CodecDeserialize ==
  /\ ~output.threw
  /\ output.serialized = Len(input)
  /\ Len(output.values) < Len(input)
  /\ LET item == CodecItems[input[Len(output.values) + 1]]
         r == Deserialize(item.codec, protoBuffer)
     IN /\ protoBuffer' = r.stream
        /\ output' = [output EXCEPT !.threw = ~r.ok,
                                    !.values = Append(@, r.value),
                                    !.consumed = Append(@, protoBuffer.length - r.stream.length)]
  /\ UNCHANGED <<net, direct, input>>

NextCodec ==
  \/ CodecSerialize
  \/ CodecDeserialize

SpecCodec == InitCodec /\ [][NextCodec]_vars

\* ---- one listener of NET.listen under the arrivals of one message's fragments

\* NET.listen's `buffer` is empty; `input` is the value whose fragments
\* arrive, `output` the listener's record for their guid (<<>> when the
\* buffer has none), the events it was run with, the indices it held when its
\* completion test last came out true (<<>> before), and the runs of the
\* callback
InitArrivals ==
  /\ NetInit
  /\ DirectIdle
  /\ protoBuffer = <<>>
  /\ input \in Values
  /\ output = [fragment |-> <<>>, arrivals |-> 0, fin |-> <<>>, calls |-> 0]

\* the listener of NET.listen run with the fragment `index` of the message,
\* for the first time or again; throws: the callback raises an error
Arrive(index, throws) ==
  LET chunks == Chunks(input)
      f == Stored(IF output.fragment = <<>> THEN NoFragment ELSE output.fragment[1],
                  index, index = Len(chunks) - 1, chunks[index + 1])
      dec == Decoded(f.serialized_packets)
  IN /\ output.arrivals < MaxArrivals
     /\ output' =
          IF ~Complete(f)
            THEN [output EXCEPT !.fragment = <<f>>, !.arrivals = @ + 1]
          ELSE IF ~dec.ok \/ throws
            THEN [output EXCEPT !.fragment = <<f>>, !.arrivals = @ + 1,
                                !.fin = <<DOMAIN f.serialized_packets>>,
                                !.calls = IF dec.ok THEN @ + 1 ELSE @]
          ELSE [output EXCEPT !.fragment = <<>>, !.arrivals = @ + 1,
                              !.fin = <<DOMAIN f.serialized_packets>>,
                              !.calls = @ + 1]
     /\ UNCHANGED <<net, direct, input, protoBuffer>>

NextArrivals ==
  \E index \in 0 .. MaxIndex, throws \in BOOLEAN :
    /\ index < Len(Chunks(input))
    /\ Arrive(index, throws)

SpecArrivals == InitArrivals /\ [][NextArrivals]_vars

\* ---- publish / subscribe with closures called again

\* the closure returned by IPC.on, called by the script for the first time or
\* again
OffAgain(l) ==
  /\ listeners[l].kind = "on"
  /\ offs[l] < MaxOffAgain
  /\ LET r == Deregister(ENDPOINTS, arrays, l)
     IN /\ ENDPOINTS' = r.E
        /\ arrays' = r.A
  /\ offs' = [offs EXCEPT ![l] = @ + 1]
  /\ UNCHANGED <<listeners, buffer, msgs, jobs, seen, late, fin, calls, resolved>>

\* a script that calls on, send and the closures, each closure up to twice
NextClosures ==
  \/ \E c \in Channels : On(c) /\ UNCHANGED <<direct, pure>>
  \/ \E c \in Channels, v \in Values : Send(c, v) /\ UNCHANGED <<direct, pure>>
  \/ \E l \in DOMAIN listeners : OffAgain(l) /\ UNCHANGED <<direct, pure>>
  \/ Step

SpecClosures == Init /\ [][NextClosures]_vars

\* ---- handshakes of connect calls that overlap

\* the initiator's script calls connect(Responder, true, timeout, ConcurrentMod,
\* DirectPrime) without waiting for earlier calls, timers fire, the jobs run
NextConcurrent ==
  \/ \E s \in 1 .. (ConcurrentMod - 1) :
       ConnectMeanwhile(Responder, TRUE, s, ConcurrentMod) /\ UNCHANGED pure
  \/ \E k \in DOMAIN connects : Timeout(k) /\ UNCHANGED pure
  \/ \E g \in DOMAIN msgs : EmitStep(g) /\ UNCHANGED <<direct, pure>>
  \/ \E j \in DOMAIN jobs : Lookup(j) /\ UNCHANGED <<direct, pure>>
  \/ \E j \in DOMAIN jobs : Loop(j) /\ UNCHANGED <<direct, pure>>
  \/ \E j \in DOMAIN jobs, s \in 1 .. (ConcurrentMod - 1) : SyncCall(j, s) /\ UNCHANGED pure
  \/ \E j \in DOMAIN jobs : Reply(j) /\ UNCHANGED <<direct, pure>>
  \/ \E j \in DOMAIN jobs : AckCall(j) /\ UNCHANGED pure

SpecConcurrent == InitSession /\ [][NextConcurrent]_vars

\* ---- two messages on their way to one endpoint

\* IPC.send(channel, String, value) of a string of PairValues
SendMeanwhile(channel, value) ==
  /\ NumTop("send") < MaxSends
  /\ msgs' = Append(msgs, NewMsg(EndpointOf(channel, "send"), value, TRUE, 0))
  /\ UNCHANGED <<ENDPOINTS, arrays, listeners, buffer, jobs, seen, late, fin, calls, offs, resolved>>

\* a script that registers its listeners, then sends two strings without
\* waiting; the jobs of the fragments advance in any order
NextPair ==
  \/ \E c \in Channels : msgs = <<>> /\ On(c) /\ UNCHANGED <<direct, pure>>
  \/ \E c \in Channels : msgs = <<>> /\ Once(c) /\ UNCHANGED <<direct, pure>>
  \/ \E c \in Channels, v \in PairValues : SendMeanwhile(c, v) /\ UNCHANGED <<direct, pure>>
  \/ Step

SpecPair == Init /\ [][NextPair]_vars

\* ---- NET.emit: the events of one message

\* a header whose final flag is set on the first fragment
HeaderFinalFirst(guid, i, length) == [guid |-> guid, index |-> i, final |-> (i = 0)]

\* NET.emit: the header of fragment i of serialized_packets.length fragments
Header(guid, i, length) == [guid |-> guid, index |-> i, final |-> (i = length - 1)]

\* the bytes a serializer leaves in packet_stream: nothing (PROTO.Void), the
\* strings "", "A", "AB", "ABC" and "ABCD", and any bytes up to MaxBytes
EmitPayloads ==
  {StringSerialize(v) : v \in Values \cup PairValues \cup {<<>>}}
    \cup SeqsUpTo(ByteValues, MaxBytes)

\* the values of generate_id
Guids == {"0A1B2C3D", "FFFFFFFF"}

\* NET.emit after serializer.serialize: `input` holds the guid and the bytes of
\* packet_stream, `output` the loop variable and the events handed to
\* system.sendScriptEvent, each as its header and its message
InitEmit ==
  /\ NetInit
  /\ DirectIdle
  /\ input \in [guid : Guids, bytes : EmitPayloads]
  /\ output = [i |-> 0, events |-> <<>>]
  /\ protoBuffer = <<>>

\* one turn of the loop over serialized_packets
EmitLoop ==
  LET serialized_packets == NetSerialize(input.bytes, FRAG_MAX)
  IN /\ output.i < Len(serialized_packets)
     /\ output' = [i |-> output.i + 1,
                   events |-> Append(output.events,
                                [header |-> Header(input.guid, output.i, Len(serialized_packets)),
                                 message |-> serialized_packets[output.i + 1]])]
     /\ UNCHANGED <<net, direct, input, protoBuffer>>

SpecEmit == InitEmit /\ [][EmitLoop]_vars

\* ------------------- a scheduler that runs a submitted job inside runJob

\* a request of connect or invoke: a message of a script's call on a
\* synchronize endpoint or on an `invoke` endpoint
IsRequest(g) ==
  /\ msgs[g].top
  /\ \/ msgs[g].endpoint[Len(msgs[g].endpoint)] = "synchronize"
     \/ msgs[g].endpoint[Len(msgs[g].endpoint)] = "invoke"

\* the endpoint on which the caller of request g listens for the reply
ReplyEndpoint(g) ==
  LET e == msgs[g].endpoint
  IN IF Len(e) = 4 THEN AcknowledgeEndpoint(msgs[g].value.from)
     ELSE IF e[3] = "manager" THEN ConnectionEndpoint(msgs[g].value.from, e[4], "handle")
     ELSE ManagerEndpoint(msgs[g].value.from, e[4], "handle")

\* the listeners registered after NET.emit was called for request g, on the
\* endpoint of its reply
ReplyListeners(g) ==
  {l \in DOMAIN listeners : l > msgs[g].at /\ listeners[l].endpoint = ReplyEndpoint(g)}

\* system.runJob of an invoke has returned and NET.listen is yet to be called
Awaiting(g) ==
  /\ IsRequest(g)
  /\ Len(msgs[g].endpoint) = 5
  /\ ReplyListeners(g) = {}

\* a script's call is between its system.runJob and its NET.listen
InCall ==
  \/ \E k \in DOMAIN connects : connects[k].promise = "pending" /\ connects[k].listener = 0
  \/ \E g \in DOMAIN msgs : Awaiting(g)

\* connect, up to the return of system.runJob: the job that emits the
\* synchronize message was started and runs before NET.listen is reached
ConnectRunJob(to, encrypted, secret) ==
  /\ Quiet
  /\ ~InCall
  /\ Len(connects) < MaxConnects
  /\ \A k \in DOMAIN connects : connects[k].promise # "pending"
  /\ to \notin DOMAIN con_map[Initiator]
  /\ msgs' = Append(msgs, DirectMsg(SynchronizeEndpoint(to), "sync",
          [from |-> Initiator, encryption_enabled |-> encrypted,
           encryption_public_key |-> make_public(secret, DirectMod, DirectPrime),
           encryption_prime |-> DirectPrime, encryption_modulus |-> DirectMod],
          TRUE))
  /\ connects' = Append(connects,
          [to |-> to, encrypted |-> encrypted, secret |-> secret,
           promise |-> "pending", con |-> 0, timer |-> "none",
           listener |-> 0, sync |-> Len(msgs) + 1])
  /\ UNCHANGED <<ENDPOINTS, arrays, listeners, buffer, jobs, seen, late, fin, calls, offs,
                 resolved, enc_force, enc_map, con_map, cons>>

\* connect, from the return of system.runJob on: system.runTimeout, then
\* NET.listen on the acknowledge endpoint
ConnectListen(k) ==
  /\ Quiet
  /\ connects[k].promise = "pending"
  /\ connects[k].listener = 0
  /\ RegisterDirect("ack", AcknowledgeEndpoint(Initiator), Initiator, k, "", "none")
  /\ connects' = [connects EXCEPT ![k].timer = "armed", ![k].listener = Len(listeners) + 1]
  /\ UNCHANGED <<msgs, jobs, enc_force, enc_map, con_map, cons>>

\* the request of ConnectionManager.invoke for the entry e of _enc_map
InvokeRequest(id, channel, value, e) ==
  DirectMsg(ConnectionEndpoint(e.key, channel, "invoke"), "con",
            [from |-> id, bytes |-> Payload(value, e.enc)], TRUE)

\* ConnectionManager.invoke, up to the return of the first system.runJob: the
\* job that emits the request for the first entry of _enc_map was started
MgrInvokeRunJob(id, channel, value) ==
  LET entries == SelectSeq(enc_map[id], LAMBDA e : e.live)
  IN /\ Quiet
     /\ ~InCall
     /\ NumDirectSends < MaxDirectSends
     /\ NumKind(SessionKinds) + Len(entries) <= MaxDirectListeners
     /\ entries # <<>>
     /\ msgs' = Append(msgs, InvokeRequest(id, channel, value, entries[1]))
     /\ UNCHANGED <<ENDPOINTS, arrays, listeners, buffer, jobs, seen, late, fin, calls,
                    offs, resolved, enc_force, enc_map, con_map, cons, connects>>

\* ConnectionManager.invoke, from the return of the system.runJob of request
\* g on: NET.listen for the reply of g's entry, then the loop on to the
\* system.runJob of the next entry of _enc_map
MgrInvokeListen(g) ==
  LET id == msgs[g].value.from
      key == msgs[g].endpoint[2]
      channel == msgs[g].endpoint[4]
      map == enc_map[id]
      at == CHOOSE i \in DOMAIN map : map[i].live /\ map[i].key = key
      rest == SelectSeq(SubSeq(map, at + 1, Len(map)), LAMBDA e : e.live)
      value == Unpayload(msgs[g].value.bytes, map[at].enc).value
      endpoint == ManagerEndpoint(id, channel, "handle")
      r == CreateListener(ENDPOINTS, arrays, endpoint, Len(listeners) + 1)
  IN /\ Quiet
     /\ Awaiting(g)
     /\ msgs[g].endpoint[3] = "connection"
     /\ EncHas(map, key)
     /\ ENDPOINTS' = r.E
     /\ arrays' = r.A
     /\ listeners' = Append(listeners,
            [DirectListener("mgr_invoke", endpoint, id, 0, channel, "none", r.arr)
               EXCEPT !.peer = key, !.enc = map[at].enc])
     /\ buffer' = Append(buffer, EmptyMap)
     /\ seen' = Append(seen, {})
     /\ late' = Append(late, {})
     /\ fin' = Append(fin, {})
     /\ calls' = Append(calls, {})
     /\ offs' = Append(offs, 0)
     /\ resolved' = Append(resolved, <<>>)
     /\ msgs' = IF rest = <<>> THEN msgs
                ELSE Append(msgs, [InvokeRequest(id, channel, value, rest[1])
                                     EXCEPT !.at = Len(listeners) + 1])
     /\ UNCHANGED <<jobs, enc_force, enc_map, con_map, cons, connects>>

\* the handshake and the responder's invoke under a scheduler whose runJob
\* runs the job to its end before it returns, as the repository's test
\* scheduler does: each call of a script is made at a quiet moment
NextImmediate ==
  \/ \E to \in Peers, e \in BOOLEAN, s \in 1 .. (DirectMod - 1) :
       ConnectRunJob(to, e, s) /\ UNCHANGED pure
  \/ \E k \in DOMAIN connects : ConnectListen(k) /\ UNCHANGED pure
  \/ \E k \in DOMAIN connects : Quiet /\ ~InCall /\ Timeout(k) /\ UNCHANGED pure
  \/ \E ch \in Channels, v \in DirectValues :
       MgrInvokeRunJob(Responder, ch, v) /\ UNCHANGED pure
  \/ \E g \in DOMAIN msgs : MgrInvokeListen(g) /\ UNCHANGED pure
  \/ \E g \in DOMAIN msgs : EmitStep(g) /\ UNCHANGED <<direct, pure>>
  \/ \E j \in DOMAIN jobs : Lookup(j) /\ UNCHANGED <<direct, pure>>
  \/ \E j \in DOMAIN jobs : Loop(j) /\ UNCHANGED <<direct, pure>>
  \/ \E j \in DOMAIN jobs, s \in 1 .. (DirectMod - 1) : SyncCall(j, s) /\ UNCHANGED pure
  \/ \E j \in DOMAIN jobs : Reply(j) /\ UNCHANGED <<direct, pure>>

SpecImmediate == InitSession /\ [][NextImmediate]_vars

\* ---- the fixed-width number codecs on a PROTO.Buffer in any state

\* the widths of Int8 / UInt8, Int16 / UInt16 and Int32 / UInt32 / Float32
NumberWidths == {1, 2, 4}

\* the numbers a script serializes: 0x01FF and -2
NumberValues == {511, -2}

\* the bytes the Buffer holds, oldest first
HeldBytes(b) == SubSeq(b.buffer, b.offset + 1, BufferEnd(b))

\* yield* PROTO.UIntN.serialize(value, stream); `input` takes the bytes the
\* value has, `output` tells whether the call returned
NumSerialize ==
  \E width \in NumberWidths, value \in NumberValues :
    LET r == SetUint(protoBuffer, width, value)
    IN /\ Len(r.stream.buffer) <= NumberCapacity
       /\ Len(input) + width <= MaxHeld
       /\ protoBuffer' = r.stream
       /\ input' = input \o BigEndian(value, width)
       /\ output' = <<[op |-> "serialize", amount |-> width, front |-> protoBuffer.offset,
                       held |-> protoBuffer.length, ok |-> r.ok,
                       value |-> <<FromBigEndian(BigEndian(value, width))>>,
                       expected |-> <<>>]>>
       /\ UNCHANGED <<net, direct>>

\* yield* PROTO.UIntN.deserialize(stream)
NumDeserialize ==
  \E width \in NumberWidths :
    LET r == GetUint(protoBuffer, width)
    IN /\ protoBuffer' = r.stream
       /\ output' = <<[op |-> "deserialize", amount |-> width, front |-> protoBuffer.offset,
                       held |-> protoBuffer.length, ok |-> r.ok,
                       value |-> IF r.ok THEN <<r.value>> ELSE <<>>,
                       expected |-> IF r.ok THEN <<FromBigEndian(Oldest(width))>> ELSE <<>>]>>
       /\ input' = IF r.ok THEN Drop(width) ELSE input
       /\ UNCHANGED <<net, direct>>

NextNumber ==
  \/ BufRead
  \/ NumSerialize
  \/ NumDeserialize

SpecNumber == InitBuffer /\ [][NextNumber]_vars

\* ---- NET.serialize alone: the chunks of a payload

\* NET.serialize applied to a buffer of any bytes with any positive max_size;
\* `output` holds the chunks
InitChunks ==
  /\ NetInit
  /\ DirectIdle
  /\ input \in [bytes : SeqsUpTo(ByteValues, ChunkBytes), max_size : 1 .. MaxSize]
  /\ output = <<>>
  /\ protoBuffer = <<>>

\* yield* NET.serialize(buffer, max_size)
SerializeChunks ==
  /\ output = <<>>
  /\ output' = <<NetSerialize(input.bytes, input.max_size)>>
  /\ UNCHANGED <<net, direct, input, protoBuffer>>

SpecChunks == InitChunks /\ [][SerializeChunks]_vars

\* ---- script events of other sources than the scripts

\* the values of ScriptEventSource besides Server
ForeignSources == {"Block", "Entity", "NPCDialogue"}

\* the events of messages made by a block, an entity or a dialogue (a
\* /scriptevent command) with the id and message a script's send would give them
ForeignSend(channel, value, source) ==
  /\ Cardinality({g \in DOMAIN msgs : msgs[g].source # "Server"}) < MaxForeign
  /\ msgs' = Append(msgs, [NewMsg(EndpointOf(channel, "send"), value, FALSE, 0)
                             EXCEPT !.source = source])
  /\ UNCHANGED <<ENDPOINTS, arrays, listeners, buffer, jobs, seen, late, fin, calls, offs, resolved>>

\* scriptEventReceive fires for the next event of such a message: the
\* subscriber starts a dispatcher job
ForeignEvent(g) ==
  /\ msgs[g].source # "Server"
  /\ msgs[g].sent < Len(msgs[g].chunks)
  /\ msgs' = [msgs EXCEPT ![g].sent = @ + 1]
  /\ jobs' = (<<g, msgs[g].sent + 1>> :> NewJob) @@ jobs
  /\ UNCHANGED <<ENDPOINTS, arrays, listeners, buffer, seen, late, fin, calls, offs, resolved>>

\* listeners registered first, then messages of the scripts and of other
\* sources whose events interleave
NextForeign ==
  \/ \E c \in Channels : msgs = <<>> /\ On(c) /\ UNCHANGED <<direct, pure>>
  \/ \E c \in Channels : msgs = <<>> /\ Once(c) /\ UNCHANGED <<direct, pure>>
  \/ \E c \in Channels, v \in PairValues :
       NumTop("send") < MaxBeside /\ SendMeanwhile(c, v) /\ UNCHANGED <<direct, pure>>
  \/ \E c \in Channels, v \in PairValues, s \in ForeignSources :
       ForeignSend(c, v, s) /\ UNCHANGED <<direct, pure>>
  \/ \E g \in DOMAIN msgs : ForeignEvent(g) /\ UNCHANGED <<direct, pure>>
  \/ Step

SpecForeign == Init /\ [][NextForeign]_vars

\* ---------------------------------------------------------------- properties

\* listener l is in an array the registry holds
InRegistry(l) == \E e \in DOMAIN ENDPOINTS : l \in Range(arrays[ENDPOINTS[e]])

\* every fragment of message g was broadcast and its dispatcher jobs ended
Dispatched(g) ==
  /\ msgs[g].sent = Len(msgs[g].chunks)
  /\ \A p \in 1 .. Len(msgs[g].chunks) : jobs[<<g, p>>].pc = "done"

\* nothing is left to run
Quiescent == \A g \in DOMAIN msgs : Dispatched(g)

\* the fragments of message g, as <<guid, index>>
Indices(g) == {<<g, k>> : k \in 0 .. (Len(msgs[g].chunks) - 1)}

\* the calls of listener l's callback for message g
CallsFor(l, g) == {c \in calls[l] : c[1] = g}

\* the listeners registered on endpoint e whose closure was never called
Current(e) == {l \in DOMAIN listeners : EndpointOfListener(l) = e /\ offs[l] = 0}

AllEndpoints == {EndpointOf(c, s) : c \in Channels, s \in {"send", "invoke", "handle"}}

\* the request message of invoke listener l
Request(l) == CHOOSE g \in DOMAIN msgs : msgs[g].from = l

\* C1: a listener registered with on(c) before send(c, v), and never
\* deregistered, has its callback invoked exactly once with v once the message
\* is dispatched.
C1_OnReceivesSend ==
  \A l \in DOMAIN listeners, g \in DOMAIN msgs :
    ( /\ listeners[l].kind = "on"
      /\ msgs[g].endpoint = EndpointOfListener(l)
      /\ l <= msgs[g].at
      /\ offs[l] = 0
      /\ Dispatched(g) )
    => CallsFor(l, g) = {<<g, msgs[g].value, 1>>}

\* C2: with a handler registered that returns the same r for any input, every
\* later invoke resolves to r: once nothing is left to run, no such promise is
\* pending or holds another value.
C2_InvokeResolvesToConstant ==
  Quiescent =>
    \A l \in DOMAIN listeners :
      ( /\ listeners[l].kind = "invoke"
        /\ \E h \in 1 .. (l - 1) : listeners[h].kind = "handle" /\ listeners[h].fn = "const" )
      => resolved[l] = <<HandlerResult("const", msgs[Request(l)].value)>>

\* C3: whatever the order in which the fragments of a message reach a
\* listener, its callback is called for that message at most once, only when
\* every fragment was delivered, with the value that was sent, and it is called
\* once every fragment was delivered and the dispatch is over.
C3_AnyOrderOneCallback ==
  \A l \in DOMAIN listeners, g \in DOMAIN msgs :
    /\ CallsFor(l, g) \subseteq {<<g, msgs[g].value, 1>>}
    /\ CallsFor(l, g) # {} => Indices(g) \subseteq seen[l]
    /\ (Indices(g) \subseteq seen[l] /\ Dispatched(g)) => CallsFor(l, g) # {}

\* a listener got the three fragments of a message out of order and its
\* callback ran once with the value sent
C3_Witness ==
  \E l \in DOMAIN listeners, g \in DOMAIN msgs :
    /\ Len(msgs[g].chunks) = 3
    /\ g \in late[l]
    /\ CallsFor(l, g) = {<<g, msgs[g].value, 1>>}

\* C4: the completion test of a listener comes out true for a message exactly
\* when it has received the final fragment and every index below it.
C4_CompleteIffAllIndices ==
  \A l \in DOMAIN listeners, g \in DOMAIN msgs :
    g \in fin[l] <=> Indices(g) \subseteq seen[l]

\* of a three-fragment message one listener has received {0, 1, 2} and
\* completed, another has received 0 and the final 2 but not 1 and has not
C4_Witness ==
  \E l, l2 \in DOMAIN listeners, g \in DOMAIN msgs :
    /\ Len(msgs[g].chunks) = 3
    /\ g \in fin[l]
    /\ {<<g, 0>>, <<g, 2>>} \subseteq seen[l2]
    /\ <<g, 1>> \notin seen[l2]
    /\ g \notin fin[l2]

\* C5: when a listener deregistered itself during its callback, every other
\* listener that was registered when the dispatch began (and that nobody
\* deregistered) has been run with the fragment exactly once when the dispatch
\* is over.
C5_SelfDeregisterSkipsNobody ==
  \A j \in DOMAIN jobs :
    (jobs[j].pc = "done" /\ jobs[j].selfOff # {})
    => \A k \in 1 .. Len(jobs[j].snap) :
         offs[jobs[j].snap[k]] = 0
         => Cardinality({m \in 1 .. Len(jobs[j].ran) : jobs[j].ran[m] = jobs[j].snap[k]}) = 1

\* C6: when a dispatch is over, every listener of the endpoint has run, whether
\* or not some raised, and the dispatcher raised its one aggregate error, with
\* every listener's error in it, exactly when some listener raised.
C6_AllRunOneAggregate ==
  \A j \in DOMAIN jobs :
    jobs[j].pc = "done"
    => /\ \A k \in 1 .. Len(jobs[j].snap) :
            (offs[jobs[j].snap[k]] = 0 \/ jobs[j].snap[k] \in jobs[j].selfOff)
            => jobs[j].snap[k] \in Range(jobs[j].ran)
       /\ jobs[j].raised <=> jobs[j].errors # <<>>

\* C7: the callback of a once listener is invoked at most once, and after its
\* first delivery the listener is not in the registry.
C7_OnceAtMostOnce ==
  \A l \in DOMAIN listeners :
    listeners[l].kind = "once"
    => /\ Cardinality(calls[l]) <= 1
       /\ calls[l] # {} => ~InRegistry(l)

\* C8: each of several outstanding invokes resolves to the handler's result
\* for its own argument: no promise holds another value, and none is pending
\* once nothing is left to run.
C8_InvokeGetsOwnResult ==
  \A l \in DOMAIN listeners :
    ( /\ listeners[l].kind = "invoke"
      /\ \E h \in 1 .. (l - 1) : listeners[h].kind = "handle" )
    => LET own == HandlerResult(listeners[CHOOSE h \in DOMAIN listeners : listeners[h].kind = "handle"].fn,
                                msgs[Request(l)].value)
       IN /\ resolved[l] # <<>> => resolved[l] = <<own>>
          /\ Quiescent => resolved[l] # <<>>

\* C9: the one-shot listener of a pending invoke is in the registry while no
\* fragment of its request has been broadcast, and it is out of the registry
\* once the promise is resolved.
C9_InvokeListensBeforeBroadcast ==
  \A l \in DOMAIN listeners :
    listeners[l].kind = "invoke"
    => /\ (resolved[l] = <<>> /\ msgs[Request(l)].sent = 0) => InRegistry(l)
       /\ resolved[l] # <<>> => ~InRegistry(l)

\* C10: while every deregistration closure was called at most once, the
\* registry has an entry for an endpoint exactly when a listener is currently
\* registered on it, the entry's array holds exactly those listeners, the
\* registry is empty again when all are removed, and a dispatch that found no
\* entry ran no listener.
C10_EntryIffListener ==
  (\A l \in DOMAIN listeners : offs[l] <= 1)
  => /\ \A e \in AllEndpoints : e \in DOMAIN ENDPOINTS <=> Current(e) # {}
     /\ \A e \in DOMAIN ENDPOINTS : Range(arrays[ENDPOINTS[e]]) = Current(e)
     /\ (\A l \in DOMAIN listeners : offs[l] = 1) => ENDPOINTS = EmptyMap
     /\ \A j \in DOMAIN jobs : (jobs[j].pc = "done" /\ jobs[j].arr = 0) => jobs[j].ran = <<>>

\* the only listener was removed by one call of its closure, the registry is
\* empty, and an event broadcast for its endpoint afterwards ran nothing
C10_Witness ==
  /\ listeners # <<>>
  /\ \A l \in DOMAIN listeners : offs[l] = 1
  /\ ENDPOINTS = EmptyMap
  /\ \E j \in DOMAIN jobs : jobs[j].pc = "done" /\ jobs[j].arr = 0 /\ msgs[j[1]].at >= 1

\* C11: NET.deserialize of the chunks NET.serialize(buffer, max_size) returns,
\* in their order, gives a buffer whose bytes are exactly the original ones.
C11_ChunkRoundTrip == output # <<>> => output[1] = input.bytes

\* C20: for every prime, base and pair of positive secrets, the shared secret
\* the initiator derives from the responder's public value equals the one the
\* responder derives from the initiator's public value.
C20_SharedSecretsAgree ==
  output # <<>> => output[1].initiator = output[1].responder

\* C12: when the initiator processes an acknowledge sent by the peer of a
\* pending connect, it constructs a Connection for that peer, stores it in
\* _con_map, resolves the promise with it, removes the acknowledge listener
\* and cancels the timeout; an acknowledge of any other sender leaves the
\* handshake as it is.
C12_AckEstablishes ==
  [][\A j \in DOMAIN jobs :
       (jobs[j].pc = "call" /\ listeners[jobs[j].cur].kind = "ack" /\ jobs'[j] # jobs[j]
          /\ connects[listeners[jobs[j].cur].ref].promise = "pending") =>
         LET l == jobs[j].cur
             k == listeners[l].ref
             to == connects[k].to
         IN IF jobs[j].dec.value.from = to
              THEN /\ Len(cons') = Len(cons) + 1
                   /\ cons'[Len(cons')].from = Initiator
                   /\ cons'[Len(cons')].to = to
                   /\ to \in DOMAIN con_map'[Initiator]
                   /\ con_map'[Initiator][to] = Len(cons')
                   /\ connects'[k].promise = "resolved"
                   /\ connects'[k].con = Len(cons')
                   /\ connects'[k].timer = "cleared"
                   /\ ~InRegistry(l)'
              ELSE /\ connects' = connects
                   /\ cons' = cons
                   /\ con_map' = con_map
                   /\ ENDPOINTS' = ENDPOINTS
                   /\ arrays' = arrays]_vars

\* a connect whose listener was run for another manager's acknowledge, and
\* later resolved by its peer's
C12_Witness ==
  \E l \in DOMAIN listeners :
    /\ listeners[l].kind = "ack"
    /\ connects[listeners[l].ref].promise = "resolved"
    /\ connects[listeners[l].ref].timer = "cleared"
    /\ \E c \in calls[l] : c[2].from # connects[listeners[l].ref].to

\* C13: once the timeout of a connect has fired (no acknowledge of the peer
\* was processed before), its promise is rejected and the registry holds no
\* listener that the connect call created.
C13_TimeoutRejects ==
  \A k \in DOMAIN connects :
    connects[k].timer = "fired" =>
      /\ connects[k].promise = "rejected"
      /\ \A l \in DOMAIN listeners :
           (listeners[l].kind = "ack" /\ listeners[l].ref = k) => ~InRegistry(l)

\* a connect that timed out after the peer's acknowledge had been broadcast
C13_Witness ==
  \E k \in DOMAIN connects :
    /\ connects[k].timer = "fired"
    /\ \E g \in DOMAIN msgs :
         /\ msgs[g].endpoint = AcknowledgeEndpoint(Initiator)
         /\ msgs[g].value.from = connects[k].to
         /\ msgs[g].sent = 1

\* C14: after terminate() was called on the Connection to a peer, the next
\* connect to that peer starts a new handshake: its promise is pending and a
\* synchronize message for the peer is handed to NET.emit.
C14_ConnectAfterTerminateHandshakes ==
  [][(/\ Len(connects') = Len(connects) + 1
      /\ connects'[Len(connects')].to \in DOMAIN con_map[Initiator]
      /\ cons[con_map[Initiator][connects'[Len(connects')].to]].terminates > 0) =>
       /\ connects'[Len(connects')].promise = "pending"
       /\ Len(msgs') = Len(msgs) + 1
       /\ msgs'[Len(msgs')].endpoint = SynchronizeEndpoint(connects'[Len(connects')].to)]_vars

\* C15: connect to a peer for which _con_map holds a Connection emits no
\* message (no synchronize, no terminate), creates no listener and no timeout,
\* calls every terminator of the cached Connection, resolves the promise with
\* that Connection, and leaves _con_map and _enc_map unchanged.
C15_ReconnectShortCircuits ==
  [][\A to \in DOMAIN con_map[Initiator] :
       (Len(connects') = Len(connects) + 1 /\ connects'[Len(connects')].to = to) =>
         LET c == con_map[Initiator][to]
         IN /\ msgs' = msgs
            /\ listeners' = listeners
            /\ connects'[Len(connects')].timer = "none"
            /\ connects'[Len(connects')].promise = "resolved"
            /\ connects'[Len(connects')].con = c
            /\ cons'[c].terminators = <<>>
            /\ \A i \in DOMAIN cons[c].terminators : ~InRegistry(cons[c].terminators[i])'
            /\ con_map' = con_map
            /\ enc_map' = enc_map]_vars

\* a second connect resolved with the Connection of the first
C15_Witness ==
  \E k \in DOMAIN connects :
    /\ connects[k].timer = "none"
    /\ connects[k].promise = "resolved"
    /\ \E n \in 1 .. (k - 1) : connects[n].con = connects[k].con

\* C16: when Connection.terminate returns, none of the listeners the
\* Connection registered through on, once, handle or an invoke still awaiting
\* its reply is in the endpoint registry.
C16_TerminateDeregistersAll ==
  [][\A c \in DOMAIN cons :
       cons'[c].terminates > cons[c].terminates =>
         \A l \in DOMAIN listeners :
           (/\ listeners[l].kind \in {"con_on", "con_once", "con_handle", "con_invoke"}
            /\ listeners[l].ref = c) => ~InRegistry(l)']_vars

\* C17: terminate(true) emits a terminate message carrying the caller's id
\* to the peer's terminate endpoint; when the peer's manager has processed it
\* the peer's _enc_map holds no entry for that id; and a message that
\* reaches a listener of the peer's manager while there is no entry for its
\* sender is ignored: no callback is called and no reply is emitted.
C17_TerminateDropsSecret ==
  [][/\ \A c \in DOMAIN cons :
          (cons'[c].terminates > cons[c].terminates /\ cons'[c].notify) =>
            /\ Len(msgs') = Len(msgs) + 1
            /\ msgs'[Len(msgs')].endpoint = TerminateEndpoint(cons[c].to)
            /\ TerminateDeserialize(NetDeserialize(msgs'[Len(msgs')].chunks))
                 = [ok |-> TRUE, value |-> cons[c].from]
     /\ \A j \in DOMAIN jobs :
          (/\ jobs[j].pc = "call"
           /\ listeners[jobs[j].cur].kind = "term"
           /\ jobs'[j] # jobs[j]) =>
            \A i \in DOMAIN enc_map'[listeners[jobs[j].cur].mgr] :
              LET e == enc_map'[listeners[jobs[j].cur].mgr][i]
              IN ~(e.live /\ e.key = jobs[j].dec.value)
     /\ \A j \in DOMAIN jobs :
          (/\ jobs[j].pc = "call"
           /\ listeners[jobs[j].cur].kind \in {"mgr_on", "mgr_once", "mgr_handle"}
           /\ jobs[j].dec.ok
           /\ ~EncHas(enc_map[listeners[jobs[j].cur].mgr], jobs[j].dec.value.from)
           /\ jobs'[j] # jobs[j]) =>
            /\ jobs'[j].pc # "deliver"
            /\ calls' = calls
            /\ msgs' = msgs
     /\ \A l \in DOMAIN listeners :
          (listeners[l].kind \in {"mgr_on", "mgr_once", "mgr_handle"} /\ calls'[l] # calls[l]) =>
            \E j \in DOMAIN jobs : jobs[j].pc = "deliver" /\ jobs[j].cur = l]_vars

\* a Connection was terminated with notification, its peer's manager holds
\* no entry for its id any more, and a message the Connection sent reached a
\* listener of that manager, which did not call its callback
C17_Witness ==
  \E c \in DOMAIN cons, l \in DOMAIN listeners, g \in DOMAIN msgs :
    /\ cons[c].terminates > 0
    /\ cons[c].notify
    /\ ~EncHas(enc_map[cons[c].to], cons[c].from)
    /\ listeners[l].kind \in {"mgr_on", "mgr_once", "mgr_handle"}
    /\ listeners[l].mgr = cons[c].to
    /\ msgs[g].endpoint = listeners[l].endpoint
    /\ msgs[g].value.from = cons[c].from
    /\ g \in fin[l]
    /\ Dispatched(g)
    /\ calls[l] = {}

\* C18: once the handshake between initiator and responder is complete, a
\* value sent with the initiator's Connection.send is delivered to the
\* responder's ConnectionManager.on listener of the channel as an equal value,
\* and a value sent with the responder's ConnectionManager.send is delivered
\* to the initiator's Connection.on listener as an equal value: when the
\* message is dispatched, a listener registered before it and still
\* registered was called once, with the value sent.
C18_SessionRoundTrip ==
  \A g \in DOMAIN msgs, l \in DOMAIN listeners :
    (/\ Dispatched(g)
     /\ listeners[l].kind \in {"mgr_on", "con_on"}
     /\ msgs[g].endpoint = listeners[l].endpoint
     /\ l <= msgs[g].at
     /\ InRegistry(l)
     /\ listeners[l].kind = "mgr_on" =>
          EncHas(enc_map[listeners[l].mgr], msgs[g].value.from)
     /\ listeners[l].kind = "con_on" => msgs[g].value.from = cons[listeners[l].ref].to)
    => \E v \in DirectValues : CallsFor(l, g) = {<<g, v, 1>>}

\* C19: a listener of a Connection (on, once, handle, invoke) calls the
\* script's callback or resolves the promise only for a message whose sender
\* id is the Connection's peer id; a listener of a manager (on, once, handle)
\* calls the script's callback only for a message whose sender id has an
\* entry in _enc_map at that moment; for any other message the callback is
\* not called.
C19_CallbackOnlyForPeers ==
  [][\A l \in DOMAIN listeners :
       (calls'[l] # calls[l] \/ resolved'[l] # resolved[l]) =>
         /\ listeners[l].kind \in {"con_on", "con_once", "con_handle", "con_invoke"} =>
              \E j \in DOMAIN jobs :
                /\ jobs[j].pc = "call"
                /\ jobs[j].cur = l
                /\ jobs'[j] # jobs[j]
                /\ jobs[j].dec.value.from = cons[listeners[l].ref].to
         /\ listeners[l].kind \in {"mgr_on", "mgr_once", "mgr_handle"} =>
              \E j \in DOMAIN jobs :
                /\ jobs[j].pc = "deliver"
                /\ jobs[j].cur = l
                /\ jobs'[j] # jobs[j]
                /\ EncHas(enc_map[listeners[l].mgr], jobs[j].dec.value.from)]_vars

\* C21: for every byte sequence, the empty one included, and every non-empty
\* key, decrypt(encrypt(bytes, key), key) is the byte sequence, and encrypt and
\* decrypt give the same result for the same bytes and key.
C21_CipherInvolution ==
  output # <<>> =>
    /\ output[1].decrypted = input.bytes
    /\ output[1].other = output[1].encrypted

\* bytes that the cipher changed and that came back, under a key shorter than
\* the bytes
C21_Witness ==
  /\ output # <<>>
  /\ output[1].encrypted # input.bytes
  /\ output[1].decrypted = input.bytes
  /\ 1 < Len(input.key)
  /\ Len(input.key) < Len(input.bytes)

\* C23: a read or consume of more bytes than the Buffer holds throws and
\* returns no value, the Buffer's front and length stay as they were, and a
\* UVarInt32 decode that runs out of bytes ends with the error, not a value.
C23_UnderflowRaises ==
  output # <<>> =>
    /\ (output[1].op \in {"read", "consume"} /\ output[1].amount > output[1].held)
         => /\ ~output[1].ok
            /\ output[1].value = <<>>
            /\ protoBuffer.offset = output[1].front
            /\ protoBuffer.length = output[1].held
    /\ ( /\ output[1].op = "deserialize"
         /\ Len(output[1].expected) < 5
         /\ \A i \in DOMAIN output[1].expected : output[1].expected[i] >= 128 )
         => /\ ~output[1].ok
            /\ output[1].value = <<>>

\* a read of two bytes from a Buffer that holds one behind a consumed one
C23_Witness ==
  /\ output # <<>>
  /\ ~output[1].ok
  /\ output[1].op = "read"
  /\ output[1].amount = 2
  /\ output[1].held = 1
  /\ output[1].front = 1

\* C24: after any sequence of write, reserve, read and consume a Buffer has
\* front <= end <= capacity, it holds exactly the bytes written (zero for a
\* reserved one) and not yet consumed, in write order, and a read returns the
\* oldest of them.
C24_BufferFifo ==
  /\ protoBuffer.offset <= BufferEnd(protoBuffer)
  /\ BufferEnd(protoBuffer) <= Len(protoBuffer.buffer)
  /\ to_uint8array(protoBuffer) = input
  /\ (output # <<>> /\ output[1].op = "read" /\ output[1].ok)
       => output[1].value = output[1].expected

\* a read after the array grew while it held bytes behind consumed ones
C24_Witness ==
  /\ output # <<>>
  /\ output[1].op = "read"
  /\ output[1].ok
  /\ output[1].value = <<172, 0>>
  /\ output[1].front = 0
  /\ Len(protoBuffer.buffer) = MaxCapacity
  /\ protoBuffer.length > 0

\* the i-th group of 7 bits of a 32-bit value, the lowest first; the fifth
\* holds the top 4 bits
GroupAt(value, i) == (value \div (2 ^ (7 * (i - 1)))) % (IF i = 5 THEN 16 ELSE 128)

\* C25: PROTO.UVarInt32 writes 300 as 0xAC 0x02 and reads these back as 300;
\* for every unsigned 32-bit value it writes at most 5 bytes, byte i holding
\* the i-th lowest group of 7 bits, with the high bit set on every byte but the
\* last and no empty group at the end; a decode takes at most 5 bytes.
C25_VarIntFormat ==
  output # <<>> =>
    LET bytes == output[1].encoded
    IN /\ input.value = 300 => bytes = <<172, 2>>
       /\ (input.stream = <<172, 2>>)
            => (output[1].taken.ok /\ output[1].taken.value = 300 /\ output[1].taken.rest = <<>>)
       /\ Len(bytes) \in 1 .. 5
       /\ \A i \in DOMAIN bytes :
            /\ bytes[i] % 128 = GroupAt(input.value, i)
            /\ (bytes[i] >= 128) <=> (i < Len(bytes))
       /\ \A i \in (Len(bytes) + 1) .. 5 : GroupAt(input.value, i) = 0
       /\ Len(bytes) > 1 => bytes[Len(bytes)] # 0
       /\ Len(input.stream) - Len(output[1].taken.rest) <= 5

\* 2^32 - 1 written as five bytes, and a decode stopped by the limit of 5
C25_Witness ==
  /\ output # <<>>
  /\ input.value = -1
  /\ output[1].encoded = <<255, 255, 255, 255, 15>>
  /\ input.stream = <<128, 128, 128, 128, 128, 128>>
  /\ output[1].taken.ok
  /\ output[1].taken.rest = <<128>>

\* C26: PROTO.UVarInt32 reads back every unsigned 32-bit value it wrote and
\* PROTO.VarInt32 every signed one, 0, -1, 2^31 - 1 and -2^31 included, and
\* each decode takes exactly the bytes written.
C26_VarIntRoundTrip ==
  output # <<>> =>
    /\ output[1].decoded = [ok |-> TRUE, value |-> input.value, rest |-> <<>>]
    /\ output[1].unzigzag = [ok |-> TRUE, value |-> input.value, rest |-> <<>>]

\* -2^31, whose zig-zag value 2^32 - 1 takes five bytes
C26_Witness ==
  /\ output # <<>>
  /\ input.value = MinInt32
  /\ output[1].zigzag = <<255, 255, 255, 255, 15>>
  /\ output[1].unzigzag.value = MinInt32
  /\ output[1].decoded.value = MinInt32

\* C22: with values serialized one after another into one Buffer by composite
\* codecs, no call throws, each deserialize consumes exactly the bytes its
\* serialize appended and returns an equal value, in the same order, and the
\* Buffer is empty after the last.
C22_CompositeRoundTrip ==
  /\ ~output.threw
  /\ \A i \in DOMAIN output.values :
       /\ output.values[i] = CodecItems[input[i]].value
       /\ output.consumed[i] = output.appended[i]
  /\ Len(output.values) = Len(input) => protoBuffer.length = 0

\* C27: whatever fragments of one message arrive at a listener, in any order
\* and any of them more than once, its completion test comes out true only
\* when it holds every index 0 .. size - 1 of the message.
C27_CompleteOnlyWhenAllPresent ==
  output.fin # <<>> => output.fin[1] = 0 .. (Len(Chunks(input)) - 1)

\* C28: once a listener's completion test has come out true for a guid and
\* the jobs of that guid's fragments have ended, with the callback returned or
\* an error raised, the listener's buffer holds no record for the guid.
C28_CompletedStateRemoved ==
  \A l \in DOMAIN listeners :
    \A g \in fin[l] :
      (\A j \in DOMAIN jobs : j[1] = g => jobs[j].pc = "done")
        => g \notin DOMAIN buffer[l]

\* C29: a deregistration closure removes only its own listener: whenever and
\* however often closures are called, a listener whose own closure was never
\* called is in the array the registry holds for its endpoint, and it is run
\* with every fragment broadcast for that endpoint after it registered.
C29_ClosureRemovesOnlyOwn ==
  \A l \in DOMAIN listeners :
    offs[l] = 0
    => /\ EndpointOfListener(l) \in DOMAIN ENDPOINTS
       /\ l \in Range(arrays[ENDPOINTS[EndpointOfListener(l)]])
       /\ \A g \in DOMAIN msgs :
            (msgs[g].endpoint = EndpointOfListener(l) /\ msgs[g].at >= l /\ Dispatched(g))
              => Indices(g) \subseteq seen[l]

\* C30: whenever the initiator's manager caches an encrypted Connection to a
\* peer and every handshake message is processed, the Connection's secret is
\* the secret the peer's manager holds for the initiator, also after connect
\* calls that overlapped and after a timed-out one.
C30_CachedSecretAgrees ==
  \A p \in Peers :
    ( /\ Quiescent
      /\ p \in DOMAIN con_map[Initiator]
      /\ cons[con_map[Initiator][p]].enc # <<>> )
    => /\ EncHas(enc_map[p], Initiator)
       /\ EncGet(enc_map[p], Initiator) = cons[con_map[Initiator][p]].enc

\* C31: when the timeout of a connect to a peer has rejected its promise, the
\* acknowledge listener of that connect stores no Connection in _con_map,
\* also when its job had decoded the acknowledge before the timeout fired; and
\* a connect to a peer whose earlier connects were all rejected starts a
\* handshake: its promise is pending and a synchronize message is emitted.
C31_TimedOutStoresNothing ==
  [][/\ \A j \in DOMAIN jobs :
          ( /\ jobs[j].pc = "call"
            /\ listeners[jobs[j].cur].kind = "ack"
            /\ connects[listeners[jobs[j].cur].ref].promise = "rejected"
            /\ jobs'[j] # jobs[j] )
          => con_map' = con_map
     /\ ( /\ Len(connects') = Len(connects) + 1
          /\ \E k \in DOMAIN connects : connects[k].to = connects'[Len(connects')].to
          /\ \A k \in DOMAIN connects :
               connects[k].to = connects'[Len(connects')].to => connects[k].promise = "rejected" )
          => /\ connects'[Len(connects')].promise = "pending"
             /\ Len(msgs') = Len(msgs) + 1
             /\ msgs'[Len(msgs')].endpoint = SynchronizeEndpoint(connects'[Len(connects')].to)]_vars

\* C32: with two messages on their way to one endpoint and their fragments
\* reaching a listener in any interleaving, the listener's callback is called
\* for each message at most once and with that message's value, it is called
\* once every fragment of the message was delivered and the dispatch is over,
\* and the job of a fragment leaves the reassembly state that any listener
\* holds for another guid as it was.
C32_GuidsIndependent ==
  /\ [](\A l \in DOMAIN listeners, g \in DOMAIN msgs :
          /\ CallsFor(l, g) \subseteq {<<g, msgs[g].value, 1>>}
          /\ (Indices(g) \subseteq seen[l] /\ Dispatched(g)) => CallsFor(l, g) # {})
  /\ [][\A j \in DOMAIN jobs :
          jobs'[j] # jobs[j] =>
            \A l \in DOMAIN buffer, g \in DOMAIN msgs \ {j[1]} :
              /\ (g \in DOMAIN buffer'[l]) = (g \in DOMAIN buffer[l])
              /\ g \in DOMAIN buffer[l] => buffer'[l][g] = buffer[l][g]]_vars

\* a listener has decoded one message and is about to run its callback while
\* it holds the first fragment of another message with another value
C32_Witness ==
  \E l \in DOMAIN listeners, g1, g2 \in DOMAIN msgs, p \in 1 .. 2 :
    /\ g1 # g2
    /\ msgs[g1].endpoint = msgs[g2].endpoint
    /\ msgs[g1].value # msgs[g2].value
    /\ <<g1, p>> \in DOMAIN jobs
    /\ jobs[<<g1, p>>].pc = "call"
    /\ jobs[<<g1, p>>].cur = l
    /\ jobs[<<g1, p>>].dec = [ok |-> TRUE, value |-> msgs[g1].value]
    /\ g2 \in DOMAIN buffer[l]
    /\ DOMAIN buffer[l][g2].serialized_packets = {0}

\* C33: the events NET.emit hands to system.sendScriptEvent for one message
\* carry the indices 0, 1, ... in this order without gaps, one event per chunk
\* of NET.serialize and with that chunk as message, all with the guid of the
\* message; once the loop is over the last event and no other has final =
\* true; and a payload of one chunk, the empty payload included, gives one
\* event with index 0 and final = true.
C33_EmitInOrder ==
  LET chunks == NetSerialize(input.bytes, FRAG_MAX)
      events == output.events
  IN /\ Len(events) <= Len(chunks)
     /\ \A n \in DOMAIN events :
          /\ events[n].header.index = n - 1
          /\ events[n].header.guid = input.guid
          /\ events[n].header.final = (n = Len(chunks))
          /\ events[n].message = chunks[n]
     /\ Len(chunks) >= 1
     /\ input.bytes = <<>> => chunks = << <<>> >>

\* the three events of "ABCD", the loop over
C33_Witness ==
  /\ input.bytes = StringSerialize(<<65, 66, 67, 68>>)
  /\ Len(output.events) = 3
  /\ output.events[3].header.final
  /\ output.i = Len(NetSerialize(input.bytes, FRAG_MAX))

\* C34: whenever the first fragment of a request of connect or of invoke is
\* handed to the broadcast primitive, the call that made the request has
\* already put its listener for the reply in the registry
C34_ReplyListenerBeforeBroadcast ==
  [][\A g \in DOMAIN msgs :
       (IsRequest(g) /\ msgs[g].sent = 0 /\ msgs'[g].sent = 1)
         => ReplyListeners(g) # {}]_vars

\* C35: the encryption flag of an acknowledge message is true exactly when
\* the responder that emits it has stored a shared secret for the peer the
\* message goes to
C35_AckFlagIsEncryption ==
  [][\A g \in DOMAIN msgs' :
       (g \notin DOMAIN msgs /\ msgs'[g].endpoint[Len(msgs'[g].endpoint)] = "acknowledge")
         => (msgs'[g].value.encryption_enabled
               <=> EncGet(enc_map'[msgs'[g].value.from], msgs'[g].endpoint[2]) # <<>>)]_vars

\* C36: when the acknowledge listener resolves the promise of a connect call,
\* the Connection it made holds a shared secret if and only if the peer's
\* _enc_map entry for the initiator holds one
C36_SecretOnBothSides ==
  [][\A k \in DOMAIN connects :
       (connects[k].promise = "pending" /\ connects'[k].promise = "resolved")
         => LET map == enc_map'[connects[k].to]
            IN (cons'[connects'[k].con].enc # <<>>
                  <=> (EncHas(map, Initiator) /\ EncGet(map, Initiator) # <<>>))]_vars

\* C37: after a fixed-width number is serialized into a Buffer, the call has
\* returned and the Buffer holds the value's bytes behind the bytes it held,
\* and a decode returns the number that was encoded at the Buffer's front
C37_NumberStored ==
  output # <<>> =>
    /\ output[1].op = "serialize" => (output[1].ok /\ HeldBytes(protoBuffer) = input)
    /\ (output[1].op = "deserialize" /\ output[1].ok) => output[1].value = output[1].expected

\* the size NET.serialize counts for a chunk: 1 for each of the two digits of
\* an escape, the UTF-8 size for a literal character
RECURSIVE ChunkSize(_)
ChunkSize(str) ==
  IF str = <<>> THEN 0
  ELSE (IF Head(str) > 255 THEN Utf16Size(Head(str)) ELSE 1) + ChunkSize(Tail(str))

RECURSIVE Concat(_)
Concat(strs) == IF strs = <<>> THEN <<>> ELSE Head(strs) \o Concat(Tail(strs))

\* C38: with a maximum size of 3 or more, every chunk NET.serialize returns
\* has an accumulated size of at most the maximum, the chunks in order spell
\* the whole encoding with the last partial chunk among them, and for a
\* non-empty payload no chunk is empty
C38_ChunksWithinMax ==
  (output # <<>> /\ input.max_size >= 3) =>
    /\ \A i \in DOMAIN output[1] : ChunkSize(output[1][i]) <= input.max_size
    /\ output[1] # <<>>
    /\ Concat(output[1])
         = NetSerializeFrom(input.bytes, 1, <<>>, 0, <<>>, 3 * Len(input.bytes))[1]
    /\ input.bytes # <<>> => \A i \in DOMAIN output[1] : output[1][i] # <<>>

\* "41" is flushed for the 3-unit character 0x0800, which is flushed for the
\* escape "01" of the odd last byte
C38_Witness ==
  /\ input = [bytes |-> <<65, 0, 0, 8, 1>>, max_size |-> 4]
  /\ output = << << <<52, 49>>, <<2048>>, <<48, 49>> >> >>

\* C39: the dispatcher job of an event whose source is not Server runs no
\* listener, and no step of such a job creates or changes registry or
\* reassembly state
C39_ForeignEventsIgnored ==
  /\ [](\A j \in DOMAIN jobs :
          msgs[j[1]].source # "Server"
            => /\ jobs[j].pc \in {"lookup", "done"}
               /\ jobs[j].cur = 0
               /\ jobs[j].ran = <<>>)
  /\ [][\A j \in DOMAIN jobs' :
          (msgs'[j[1]].source # "Server" /\ (j \notin DOMAIN jobs \/ jobs'[j] # jobs[j]))
            => UNCHANGED <<ENDPOINTS, arrays, listeners, buffer, seen, late, fin, calls,
                           offs, resolved>>]_vars

\* both fragments of a foreign message for an endpoint that has a listener
\* were dispatched and dropped
C39_Witness ==
  \E g \in DOMAIN msgs :
    /\ msgs[g].source # "Server"
    /\ msgs[g].endpoint \in DOMAIN ENDPOINTS
    /\ arrays[ENDPOINTS[msgs[g].endpoint]] # <<>>
    /\ Len(msgs[g].chunks) = 2
    /\ \A p \in 1 .. 2 : <<g, p>> \in DOMAIN jobs /\ jobs[<<g, p>>].pc = "done"
    /\ \A l \in DOMAIN buffer : g \notin DOMAIN buffer[l]

\* C40: the dispatcher job of a fragment whose endpoint has no listener in
\* the registry runs no listener, ends at once without an error and leaves the
\* registry and every listener's reassembly state as they are; the fragment is
\* never given to a listener, not to one registered on that endpoint later
\* either
C40_UnheardFragmentDropped ==
  /\ [](\A j \in DOMAIN jobs :
          (jobs[j].pc = "done" /\ jobs[j].ran = <<>>)
            => /\ ~jobs[j].raised
               /\ jobs[j].errors = <<>>
               /\ \A l \in DOMAIN listeners :
                    /\ <<j[1], j[2] - 1>> \notin seen[l]
                    /\ j[1] \in DOMAIN buffer[l]
                         => (j[2] - 1) \notin DOMAIN buffer[l][j[1]].serialized_packets)
  /\ [][\A j \in DOMAIN jobs :
          (jobs[j].pc = "lookup" /\ msgs[j[1]].endpoint \notin DOMAIN ENDPOINTS
             /\ jobs'[j] # jobs[j])
            => /\ jobs'[j].pc = "done"
               /\ UNCHANGED <<ENDPOINTS, arrays, listeners, buffer, seen, late, fin, calls,
                              offs, resolved>>]_vars

\* the first fragment of a message was dropped for want of a listener; a
\* listener registered on its endpoint afterwards has received the second
\* fragment alone
C40_Witness ==
  \E g \in DOMAIN msgs, l \in DOMAIN listeners :
    /\ <<g, 1>> \in DOMAIN jobs
    /\ jobs[<<g, 1>>].pc = "done"
    /\ jobs[<<g, 1>>].arr = 0
    /\ l > msgs[g].at
    /\ msgs[g].endpoint \in DOMAIN ENDPOINTS
    /\ l \in Range(arrays[ENDPOINTS[msgs[g].endpoint]])
    /\ <<g, 1>> \in seen[l]
    /\ <<g, 0>> \notin seen[l]

====
